---- MODULE Spec2Model ----
(***************************************************************************)
(* The Liquid lexers of src/liquid2_lexer.py (StandardLiquidLexer,        *)
(* Liquid2Lexer and their delegated subclasses) as a state machine: the   *)
(* driving loop of ExtendedRegexLexer.get_tokens_unprocessed, one loop    *)
(* iteration per step, over the rule tables `tokens` of the two classes.  *)
(*                                                                         *)
(* The input is a sequence of one-character strings; offsets are 0-based  *)
(* as in the source (ctx.pos, match.start(), match.end()).                 *)
(*                                                                         *)
(* A regular expression is data: a sequence of atoms and the spans of its  *)
(* groups.  MatchAtoms matches it the way Python's `re` does, trying the   *)
(* candidates of each atom in order (greedy quantifiers longest first,    *)
(* alternatives as written) and backtracking when the rest fails.         *)
(***************************************************************************)
EXTENDS Integers, Sequences, FiniteSets, TLC

VARIABLES
    cls,     \* the lexer class whose rule table and attributes are used
    text,    \* ctx.text: the input
    pos,     \* ctx.pos: the cursor
    stack,   \* ctx.stack: the state stack, bottom first
    toks,    \* the tokens yielded so far by ExtendedRegexLexer.get_tokens_unprocessed
    pc,      \* "run" while the loop runs, "done" after its break
    result,  \* how the generator ended: "" while running, then "StopIteration"
    last     \* the loop iteration just executed (history of one step)

vars == <<cls, text, pos, stack, toks, pc, result, last>>

-----------------------------------------------------------------------------
(* Character classes of Python's `re` over str, restricted to the          *)
(* characters TLA+ strings can spell.                                      *)

Lower == {"a", "b", "c", "d", "e", "f", "g", "h", "i", "j", "k", "l", "m",
          "n", "o", "p", "q", "r", "s", "t", "u", "v", "w", "x", "y", "z"}

Upper == {"A", "B", "C", "D", "E", "F", "G", "H", "I", "J", "K", "L", "M",
          "N", "O", "P", "Q", "R", "S", "T", "U", "V", "W", "X", "Y", "Z"}

\* \d
Digit == {"0", "1", "2", "3", "4", "5", "6", "7", "8", "9"}

\* [U+0080-U+FFFF], by one representative
NonAscii == {"é"}

\* \s
Space == {" ", "\t", "\n", "\r", "\f"}

\* \w, the class \b is defined by
WordChar == Lower \cup Upper \cup Digit \cup {"_"} \cup NonAscii

\* [U+0080-U+FFFF a-zA-Z_]
IdentStart == NonAscii \cup Lower \cup Upper \cup {"_"}

\* [U+0080-U+FFFF a-zA-Z0-9_-]
IdentChar == IdentStart \cup Digit \cup {"-"}

\* [a-z_0-9]
TagChar == Lower \cup Digit \cup {"_"}

-----------------------------------------------------------------------------
(* Regular expressions.  A position is an offset into text.                *)

\* text[p], or "" (no character) outside the input
At(p) == IF p >= 0 /\ p < Len(text) THEN text[p + 1] ELSE ""

\* an atom: a literal alternation, a character class with a quantifier
\* ("1", "?", "*", "+"), \b or a lookahead (?=[s])
Atom(a, s, ws, q) == [a |-> a, s |-> s, ws |-> ws, q |-> q]

\* a literal string w
Lit(w) == Atom("alt", {}, <<w>>, "1")

\* (w1|w2|...)
Alt(ws) == Atom("alt", {}, ws, "1")

\* [s] with quantifier q
In(s, q) == Atom("in", s, <<>>, q)

\* [^s] with quantifier q; `.` is [^\n], the lexers' flags being re.MULTILINE
NotIn(s, q) == Atom("notin", s, <<>>, q)

\* \b
WordBoundary == Atom("\\b", {}, <<>>, "1")

\* [s] in place of (?=[s]): the character is consumed
Ahead_consuming(s) == Atom("in", s, <<>>, "1")

\* (?=[s])
Ahead(s) == Atom("(?=)", s, <<>>, "1")

\* (?<=[s])
Behind(s) == Atom("(?<=)", s, <<>>, "1")

\* whether the character at p belongs to the class of atom a
InClass(a, p) ==
    /\ p < Len(text)
    /\ IF a.a = "in" THEN At(p) \in a.s ELSE At(p) \notin a.s

\* the end of the longest run of the class of atom a from p
RECURSIVE RunEnd(_, _)
RunEnd(a, p) == IF InClass(a, p) THEN RunEnd(a, p + 1) ELSE p

\* the positions e, e-1, ..., lo
RECURSIVE Down(_, _)
Down(e, lo) == IF e < lo THEN <<>> ELSE <<e>> \o Down(e - 1, lo)

\* whether the literal w is at p
LitAt(w, p) ==
    /\ p + Len(w) <= Len(text)
    /\ \A i \in 1..Len(w) : text[p + i] = w[i]

\* the ends of the alternatives ws[i..] that match at p, in their order
RECURSIVE AltEnds(_, _, _)
AltEnds(ws, i, p) ==
    IF i > Len(ws) THEN <<>>
    ELSE (IF LitAt(ws[i], p) THEN <<p + Len(ws[i])>> ELSE <<>>)
         \o AltEnds(ws, i + 1, p)

\* the positions at which atom a, matched from p, may end, in the order the
\* matcher tries them
Candidates(a, p) ==
    CASE a.a = "alt" -> AltEnds(a.ws, 1, p)
      [] a.a = "\\b" ->
            IF (At(p - 1) \in WordChar) # (At(p) \in WordChar)
            THEN <<p>> ELSE <<>>
      [] a.a = "(?=)" -> IF At(p) \in a.s THEN <<p>> ELSE <<>>
      [] a.a = "(?<=)" -> IF At(p - 1) \in a.s THEN <<p>> ELSE <<>>
      [] a.a \in {"in", "notin"} ->
            CASE a.q = "1" -> IF InClass(a, p) THEN <<p + 1>> ELSE <<>>
              [] a.q = "?" -> IF InClass(a, p) THEN <<p + 1, p>> ELSE <<p>>
              [] a.q = "*" -> Down(RunEnd(a, p), p)
              [] a.q = "+" -> Down(RunEnd(a, p), p + 1)

(* The positions after atoms i, i+1, ... of `atoms` in the first match     *)
(* from p the backtracking search finds: [ok, ends].                       *)
RECURSIVE MatchAtoms(_, _, _), TryCandidates(_, _, _, _)
MatchAtoms(atoms, i, p) ==
    IF i > Len(atoms) THEN [ok |-> TRUE, ends |-> <<>>]
    ELSE TryCandidates(atoms, i, Candidates(atoms[i], p), 1)

TryCandidates(atoms, i, cands, k) ==
    IF k > Len(cands) THEN [ok |-> FALSE, ends |-> <<>>]
    ELSE LET rest == MatchAtoms(atoms, i + 1, cands[k])
         IN  IF rest.ok THEN [ok |-> TRUE, ends |-> <<cands[k]>> \o rest.ends]
             ELSE TryCandidates(atoms, i, cands, k + 1)

(* A match object: ok, start(), end() and the spans of the groups.  Group  *)
(* g of a pattern covers the atoms groups[g][1] .. groups[g][2].           *)
NoMatch == [ok |-> FALSE, start |-> 0, end |-> 0, groups |-> <<>>]

\* rexmatch(text, p, ctx.end)
ReMatch(re, p) ==
    LET r == MatchAtoms(re.atoms, 1, p)
        after(k) == IF k = 0 THEN p ELSE r.ends[k]
    IN  IF ~r.ok THEN NoMatch
        ELSE [ok |-> TRUE, start |-> p, end |-> after(Len(re.atoms)),
              groups |-> [g \in 1..Len(re.groups) |->
                            <<after(re.groups[g][1] - 1), after(re.groups[g][2])>>]]

\* match.group(0)
Group0(m) == SubSeq(text, m.start + 1, m.end)

\* match.group(g), g >= 1
Group(m, g) == SubSeq(text, m.groups[g][1] + 1, m.groups[g][2])

\* a pattern without groups
Re(atoms) == [atoms |-> atoms, groups |-> <<>>]

\* a pattern with groups
ReGroups(atoms, groups) == [atoms |-> atoms, groups |-> groups]

-----------------------------------------------------------------------------
(* The lexer classes and their rule tables.                                *)

Standard == {"StandardLiquidLexer", "_DelegatedLiquidLexer"}

Liquid2 == {"Liquid2Lexer", "_DelegatedLiquid2Lexer"}

\* the whitespace control characters of a class: -? or [\-\~\+]?
Trim(c) == IF c \in Standard THEN {"-"} ELSE {"-", "~", "+"}

\* if|unless|else|elsif|case|when|endif|endunless|endcase|for|endfor
ControlFlowWords ==
    << <<"i", "f">>, <<"u", "n", "l", "e", "s", "s">>, <<"e", "l", "s", "e">>,
       <<"e", "l", "s", "i", "f">>, <<"c", "a", "s", "e">>,
       <<"w", "h", "e", "n">>, <<"e", "n", "d", "i", "f">>,
       <<"e", "n", "d", "u", "n", "l", "e", "s", "s">>,
       <<"e", "n", "d", "c", "a", "s", "e">>, <<"f", "o", "r">>,
       <<"e", "n", "d", "f", "o", "r">> >>

\* true|false|nil|null|with|reversed|as|for, and in Liquid2Lexer
\* true|false|nil|null|with|reversed|as|if|else|not|for
ConstantWords(c) ==
    << <<"t", "r", "u", "e">>, <<"f", "a", "l", "s", "e">>, <<"n", "i", "l">>,
       <<"n", "u", "l", "l">>, <<"w", "i", "t", "h">>,
       <<"r", "e", "v", "e", "r", "s", "e", "d">>, <<"a", "s">> >>
    \o (IF c \in Standard THEN << >>
        ELSE << <<"i", "f">>, <<"e", "l", "s", "e">>, <<"n", "o", "t">> >>)
    \o << <<"f", "o", "r">> >>

\* and|or|contains|in
OperatorWords ==
    << <<"a", "n", "d">>, <<"o", "r">>,
       <<"c", "o", "n", "t", "a", "i", "n", "s">>, <<"i", "n">> >>

\* >=|<=|==|!=|<>|>|<|=
Operators ==
    << <<">", "=">>, <<"<", "=">>, <<"=", "=">>, <<"!", "=">>, <<"<", ">">>,
       <<">">>, <<"<">>, <<"=">> >>

\* [,:]|\.\.|\(|\)
Punctuations == << <<",">>, <<":">>, <<".", ".">>, <<"(">>, <<")">> >>

(* A rule is (pattern, action[, new state]).  The action is a token type,  *)
(* bygroups(...), endcomment_callback, or None (default).  The new state   *)
(* is as the lexer metaclass stores it: None, -1 for "#pop", "#push", or a *)
(* tuple of states.                                                        *)
Rule(re, action, new_state) ==
    [re |-> re, action |-> action, new_state |-> new_state]

TokenType(t) == [type |-> "token", ttype |-> t, args |-> <<>>]

bygroups(args) == [type |-> "bygroups", ttype |-> "", args |-> args]

Callback == [type |-> "endcomment_callback", ttype |-> "", args |-> <<>>]

NoAction == [type |-> "None", ttype |-> "", args |-> <<>>]

Stay == [kind |-> "None", n |-> 0, states |-> <<>>]

Pop == [kind |-> "int", n |-> -1, states |-> <<>>]

PushSame == [kind |-> "#push", n |-> 0, states |-> <<>>]

To(states) == [kind |-> "tuple", n |-> 0, states |-> states]

\* \{%-? \s* and \{%[\-\~\+]? \s*
TagOpen(c) == <<Lit(<<"{", "%">>), In(Trim(c), "?"), In(Space, "*")>>

\* -?%} and [\-\~\+]?%}
TagClose(c) == <<In(Trim(c), "?"), Lit(<<"%", "}">>)>>

\* (\{%-?)(\s*)(name)(\s*)(-?%})
FiveGroups(c, name) ==
    ReGroups(TagOpen(c) \o <<Lit(name), In(Space, "*")>> \o TagClose(c),
             << <<1, 2>>, <<3, 3>>, <<4, 4>>, <<5, 5>>, <<6, 7>> >>)

FiveTypes ==
    <<"Liquid.Delimiter", "Whitespace", "Liquid.Tag.Name", "Whitespace",
      "Liquid.Delimiter">>

\* [U+0080-U+FFFF a-zA-Z_][U+0080-U+FFFF a-zA-Z0-9_-]*
Ident == <<In(IdentStart, "1"), In(IdentChar, "*")>>

root(c) ==
    << Rule(Re(<<NotIn({"{"}, "+")>>), TokenType("Liquid.Text"), Stay),
       Rule(ReGroups(TagOpen(c) \o <<Lit(<<"#">>)>>,
                     << <<1, 2>>, <<3, 3>>, <<4, 4>> >>),
            bygroups(<<"Liquid.Delimiter", "Whitespace", "Comment">>),
            To(<<"inline-comment">>)),
       \* (\{%-?)(\s*)(liquid), and (\{[\-\~\+]?)(\s*)(liquid) in Liquid2Lexer
       Rule(ReGroups(<<Lit(IF c \in Standard THEN <<"{", "%">> ELSE <<"{">>),
                       In(Trim(c), "?"), In(Space, "*"),
                       Lit(<<"l", "i", "q", "u", "i", "d">>)>>,
                     << <<1, 2>>, <<3, 3>>, <<4, 4>> >>),
            bygroups(<<"Liquid.Delimiter", "Whitespace", "Liquid.Tag.Name">>),
            To(<<"line-statements">>)),
       Rule(FiveGroups(c, <<"c", "o", "m", "m", "e", "n", "t">>),
            bygroups(FiveTypes), To(<<"block-comment">>)),
       Rule(FiveGroups(c, <<"r", "a", "w">>),
            bygroups(FiveTypes), To(<<"raw-tag">>)),
       Rule(ReGroups(TagOpen(c) \o <<Alt(ControlFlowWords), WordBoundary,
                                     In(Space, "*")>>,
                     << <<1, 2>>, <<3, 3>>, <<4, 4>>, <<6, 6>> >>),
            bygroups(<<"Liquid.Delimiter", "Whitespace", "Liquid.ControlFlow",
                       "Whitespace">>),
            To(<<"tag-expression">>)),
       Rule(ReGroups(TagOpen(c) \o <<In(Lower, "1"), In(TagChar, "*"),
                                     In(Space, "*")>>,
                     << <<1, 2>>, <<3, 3>>, <<4, 5>>, <<6, 6>> >>),
            bygroups(<<"Liquid.Delimiter", "Whitespace", "Liquid.Tag.Name",
                       "Whitespace">>),
            To(<<"tag-expression">>)),
       Rule(ReGroups(<<Lit(<<"{", "{">>), In(Trim(c), "?"), In(Space, "*")>>,
                     << <<1, 2>>, <<3, 3>> >>),
            bygroups(<<"Liquid.Delimiter", "Whitespace">>),
            To(<<"output-expression">>)),
       Rule(Re(<<Lit(<<"{">>)>>), TokenType("Liquid.Text"), Stay) >>

\* [^\-%]+ and [\-%] are the same in both classes
inline_comment(c) ==
    << Rule(Re(<<NotIn({"-", "%"}, "+")>>), TokenType("Comment"), Stay),
       Rule(Re(TagClose(c)), TokenType("Liquid.Delimiter"), Pop),
       Rule(Re(<<In({"-", "%"}, "1")>>), TokenType("Comment"), Stay) >>

block_comment(c) ==
    << Rule(Re(<<NotIn({"{"}, "+")>>), TokenType("Comment"), Stay),
       Rule(Re(FiveGroups(c, <<"c", "o", "m", "m", "e", "n", "t">>).atoms),
            TokenType("Comment"), PushSame),
       Rule(FiveGroups(c, <<"e", "n", "d", "c", "o", "m", "m", "e", "n", "t">>),
            Callback, Stay),
       Rule(Re(<<Lit(<<"{">>)>>), TokenType("Comment"), Stay) >>

\* expression trying the integer pattern before the float pattern
expression_intfirst(c) ==
    << Rule(Re(<<Lit(<<"\"">>)>>), TokenType("String.Double"),
            To(<<"double-string">>)),
       Rule(Re(<<Lit(<<"'">>)>>), TokenType("String.Single"),
            To(<<"single-string">>)),
       Rule(Re(<<In(Digit, "+")>>), TokenType("Number.Integer"), Stay),
       Rule(Re(<<In(Digit, "+"), Lit(<<".">>), In(Digit, "+")>>),
            TokenType("Number.Float"), Stay),
       \* (\|)(\s*)(name), and (\|\|?)(\s*)(name) in Liquid2Lexer
       Rule(ReGroups(<<Lit(<<"|">>),
                       In(IF c \in Standard THEN {} ELSE {"|"}, "?"),
                       In(Space, "*")>> \o Ident,
                     << <<1, 2>>, <<3, 3>>, <<4, 5>> >>),
            bygroups(<<"Operator", "Whitespace", "Name.Function">>), Stay),
       Rule(Re(<<Lit(<<"[">>)>>), TokenType("Punctuation"), To(<<"path">>)),
       Rule(ReGroups(Ident \o <<In({"[", "."}, "1")>>, << <<1, 2>>, <<3, 3>> >>),
            bygroups(<<"Name.Variable", "Punctuation">>), To(<<"path">>)),
       Rule(ReGroups(Ident \o <<In(Space, "*"), Ahead({":", "="})>>,
                     << <<1, 2>>, <<3, 3>> >>),
            bygroups(<<"Name.Attribute", "Whitespace">>), Stay),
       Rule(Re(<<Alt(ConstantWords(c)), WordBoundary>>),
            TokenType("Keyword.Constant"), Stay),
       Rule(Re(<<Alt(OperatorWords), WordBoundary>>),
            TokenType("Operator.Word"), Stay),
       Rule(Re(Ident), TokenType("Name.Variable"), Stay),
       Rule(Re(<<Alt(Operators)>>), TokenType("Operator"), Stay),
       Rule(Re(<<Alt(Punctuations)>>), TokenType("Punctuation"), Stay) >>

raw_tag(c) ==
    << Rule(Re(<<NotIn({"{"}, "+")>>), TokenType("Text"), Stay),
       Rule(FiveGroups(c, <<"e", "n", "d", "r", "a", "w">>),
            bygroups(FiveTypes), Pop),
       Rule(Re(<<Lit(<<"{">>)>>), TokenType("Text"), Stay) >>

expression(c) ==
    << Rule(Re(<<Lit(<<"\"">>)>>), TokenType("String.Double"),
            To(<<"double-string">>)),
       Rule(Re(<<Lit(<<"'">>)>>), TokenType("String.Single"),
            To(<<"single-string">>)),
       Rule(Re(<<In(Digit, "+"), Lit(<<".">>), In(Digit, "+")>>),
            TokenType("Number.Float"), Stay),
       Rule(Re(<<In(Digit, "+")>>), TokenType("Number.Integer"), Stay),
       \* (\|)(\s*)(name), and (\|\|?)(\s*)(name) in Liquid2Lexer
       Rule(ReGroups(<<Lit(<<"|">>),
                       In(IF c \in Standard THEN {} ELSE {"|"}, "?"),
                       In(Space, "*")>> \o Ident,
                     << <<1, 2>>, <<3, 3>>, <<4, 5>> >>),
            bygroups(<<"Operator", "Whitespace", "Name.Function">>), Stay),
       Rule(Re(<<Lit(<<"[">>)>>), TokenType("Punctuation"), To(<<"path">>)),
       Rule(ReGroups(Ident \o <<In({"[", "."}, "1")>>, << <<1, 2>>, <<3, 3>> >>),
            bygroups(<<"Name.Variable", "Punctuation">>), To(<<"path">>)),
       Rule(ReGroups(Ident \o <<In(Space, "*"), Ahead({":", "="})>>,
                     << <<1, 2>>, <<3, 3>> >>),
            bygroups(<<"Name.Attribute", "Whitespace">>), Stay),
       Rule(Re(<<Alt(ConstantWords(c)), WordBoundary>>),
            TokenType("Keyword.Constant"), Stay),
       Rule(Re(<<Alt(OperatorWords), WordBoundary>>),
            TokenType("Operator.Word"), Stay),
       Rule(Re(Ident), TokenType("Name.Variable"), Stay),
       Rule(Re(<<Alt(Operators)>>), TokenType("Operator"), Stay),
       Rule(Re(<<Alt(Punctuations)>>), TokenType("Punctuation"), Stay) >>

\* include("expression"), then [ \t\n\r]+
multiline_expression(c) ==
    expression(c)
    \o << Rule(Re(<<In({" ", "\t", "\n", "\r"}, "+")>>),
               TokenType("Whitespace"), Stay) >>

\* include("expression"), then [ \t]+
inline_expression(c) ==
    expression(c)
    \o << Rule(Re(<<In({" ", "\t"}, "+")>>), TokenType("Whitespace"), Stay) >>

tag_expression(c) ==
    multiline_expression(c)
    \o << Rule(Re(TagClose(c)), TokenType("Liquid.Delimiter"), Pop) >>

output_expression(c) ==
    multiline_expression(c)
    \o << Rule(Re(<<In(Trim(c), "?"), Lit(<<"}", "}">>)>>),
               TokenType("Liquid.Delimiter"), Pop) >>

single_string(c) ==
    << Rule(Re(<<Lit(<<"\\">>), NotIn({"\n"}, "1")>>),
            TokenType("String.Escape"), Stay),
       Rule(Re(<<Lit(<<"'">>)>>), TokenType("String.Single"), Pop),
       Rule(Re(<<NotIn({"\\", "'"}, "+")>>), TokenType("String.Single"), Stay) >>

double_string(c) ==
    << Rule(Re(<<Lit(<<"\\">>), NotIn({"\n"}, "1")>>),
            TokenType("String.Escape"), Stay),
       Rule(Re(<<Lit(<<"\"">>)>>), TokenType("String.Double"), Pop),
       Rule(Re(<<NotIn({"\\", "\""}, "+")>>), TokenType("String.Double"), Stay) >>

\* path without the rule for ]
path_noclose(c) ==
    << Rule(Re(<<Lit(<<".">>)>>), TokenType("Punctuation"), Stay),
       Rule(Re(<<Lit(<<"[">>)>>), TokenType("Punctuation"), PushSame),
       Rule(Re(Ident), TokenType("Name.Variable"), Stay),
       Rule(Re(<<In(Digit, "+")>>), TokenType("Number.Integer"), Stay),
       Rule(Re(<<Lit(<<"\"">>)>>), TokenType("String.Double"),
            To(<<"double-string">>)),
       Rule(Re(<<Lit(<<"'">>)>>), TokenType("String.Single"),
            To(<<"single-string">>)),
       Rule(Re(<<>>), NoAction, Pop) >>

\* path with a default transition that pops nothing
path_defaultstay(c) ==
    << Rule(Re(<<Lit(<<".">>)>>), TokenType("Punctuation"), Stay),
       Rule(Re(<<Lit(<<"[">>)>>), TokenType("Punctuation"), PushSame),
       Rule(Re(<<Lit(<<"]">>)>>), TokenType("Punctuation"), Pop),
       Rule(Re(Ident), TokenType("Name.Variable"), Stay),
       Rule(Re(<<In(Digit, "+")>>), TokenType("Number.Integer"), Stay),
       Rule(Re(<<Lit(<<"\"">>)>>), TokenType("String.Double"),
            To(<<"double-string">>)),
       Rule(Re(<<Lit(<<"'">>)>>), TokenType("String.Single"),
            To(<<"single-string">>)),
       Rule(Re(<<>>), NoAction, Stay) >>

\* the last rule is default("#pop"): the empty pattern, no action
path(c) ==
    << Rule(Re(<<Lit(<<".">>)>>), TokenType("Punctuation"), Stay),
       Rule(Re(<<Lit(<<"[">>)>>), TokenType("Punctuation"), PushSame),
       Rule(Re(<<Lit(<<"]">>)>>), TokenType("Punctuation"), Pop),
       Rule(Re(Ident), TokenType("Name.Variable"), Stay),
       Rule(Re(<<In(Digit, "+")>>), TokenType("Number.Integer"), Stay),
       Rule(Re(<<Lit(<<"\"">>)>>), TokenType("String.Double"),
            To(<<"double-string">>)),
       Rule(Re(<<Lit(<<"'">>)>>), TokenType("String.Single"),
            To(<<"single-string">>)),
       Rule(Re(<<>>), NoAction, Pop) >>

line_statements(c) ==
    << Rule(Re(TagClose(c)), TokenType("Liquid.Delimiter"), Pop),
       Rule(ReGroups(<<In(Space, "*"), Alt(ControlFlowWords), WordBoundary>>,
                     << <<1, 1>>, <<2, 2>> >>),
            bygroups(<<"Whitespace", "Liquid.ControlFlow">>),
            To(<<"line-expression">>)),
       Rule(ReGroups(<<In(Space, "*"), In(Lower, "1"), In(TagChar, "+")>>,
                     << <<1, 1>>, <<2, 3>> >>),
            bygroups(<<"Whitespace", "Liquid.Tag.Name">>),
            To(<<"line-expression">>)),
       Rule(Re(<<In({" ", "\t"}, "+")>>), TokenType("Whitespace"), Stay) >>

\* line-expression whose closing delimiter pops one frame
line_expression_popone(c) ==
    << Rule(Re(<<In({" ", "\t", "\r"}, "*"), Lit(<<"\n">>)>>),
            TokenType("Whitespace"), Pop) >>
    \o inline_expression(c)
    \o << Rule(Re(TagClose(c)), TokenType("Liquid.Delimiter"), Pop) >>

line_expression(c) ==
    << Rule(Re(<<In({" ", "\t", "\r"}, "*"), Lit(<<"\n">>)>>),
            TokenType("Whitespace"), Pop) >>
    \o inline_expression(c)
    \o << Rule(Re(TagClose(c)), TokenType("Liquid.Delimiter"),
               To(<<"#pop", "#pop">>)) >>

States ==
    {"root", "inline-comment", "block-comment", "raw-tag", "tag-expression",
     "output-expression", "single-string", "double-string", "path",
     "line-statements", "line-expression"}

\* the processed table of a class: tokens[state] with the includes expanded
tokens(c) ==
    [state \in States |->
        CASE state = "root" -> root(c)
          [] state = "inline-comment" -> inline_comment(c)
          [] state = "block-comment" -> block_comment(c)
          [] state = "raw-tag" -> raw_tag(c)
          [] state = "tag-expression" -> tag_expression(c)
          [] state = "output-expression" -> output_expression(c)
          [] state = "single-string" -> single_string(c)
          [] state = "double-string" -> double_string(c)
          [] state = "path" -> path(c)
          [] state = "line-statements" -> line_statements(c)
          [] state = "line-expression" -> line_expression(c)]

StandardLiquidLexer_tokens == tokens("StandardLiquidLexer")

Liquid2Lexer_tokens == tokens("Liquid2Lexer")

-----------------------------------------------------------------------------
(* The earlier draft, src/src/pygments_liquid2/liquid2_lexer.py: a         *)
(* RegexLexer, also named Liquid2Lexer, with its own rule table.  The      *)
(* states generic-value, operator and end-at-whitespace, which no rule     *)
(* enters, are left out.                                                   *)

Draft == "pygments_liquid2.Liquid2Lexer"

\* [a-zA-Z_]
AsciiStart == Lower \cup Upper \cup {"_"}

\* "whitespace"
draft_whitespace ==
    << Rule(Re(<<In({" ", "\t"}, "+")>>), TokenType("Whitespace"), Stay) >>

\* "keyword"
draft_keyword ==
    << Rule(Re(<<WordBoundary,
                 Alt(<< <<"f", "a", "l", "s", "e">>, <<"t", "r", "u", "e">> >>),
                 WordBoundary>>),
            TokenType("Keyword.Constant"), Stay) >>

\* "variable"
draft_variable ==
    << Rule(Re(<<In(AsciiStart, "1"), In(WordChar, "*")>>),
            TokenType("Name.Variable"), Stay),
       Rule(Re(<<Behind(WordChar), Lit(<<".">>), Ahead(WordChar)>>),
            TokenType("Punctuation"), Stay) >>

\* "string"
draft_string ==
    << Rule(Re(<<Lit(<<"'">>), NotIn({"'"}, "*"), Lit(<<"'">>)>>),
            TokenType("String.Single"), Stay),
       Rule(Re(<<Lit(<<"\"">>), NotIn({"\""}, "*"), Lit(<<"\"">>)>>),
            TokenType("String.Double"), Stay) >>

\* "number"
draft_number ==
    << Rule(Re(<<In(Digit, "+"), Lit(<<".">>), In(Digit, "+")>>),
            TokenType("Number.Float"), Stay),
       Rule(Re(<<In(Digit, "+")>>), TokenType("Number.Integer"), Stay) >>

\* "generic"
draft_generic == draft_keyword \o draft_string \o draft_number \o draft_variable

\* "end-of-tag" and "end-of-block"
draft_end_of_tag ==
    << Rule(Re(<<Lit(<<"}", "}">>)>>), TokenType("Punctuation"), Pop) >>

draft_end_of_block ==
    << Rule(Re(<<Lit(<<"%", "}">>)>>), TokenType("Punctuation"),
            To(<<"#pop", "#pop">>)) >>

draft_root ==
    << Rule(Re(<<NotIn({"{"}, "+")>>), TokenType("Text"), Stay),
       Rule(ReGroups(<<Lit(<<"{", "%">>), In(Space, "*")>>,
                     << <<1, 1>>, <<2, 2>> >>),
            bygroups(<<"Punctuation", "Whitespace">>), To(<<"tag-or-block">>)),
       Rule(ReGroups(<<Lit(<<"{", "{">>), In(Space, "*"),
                       NotIn(Space \cup {"}"}, "+")>>,
                     << <<1, 1>>, <<2, 2>>, <<3, 3>> >>),
            bygroups(<<"Punctuation", "Whitespace", "using generic">>),
            To(<<"output">>)),
       Rule(Re(<<Lit(<<"{">>)>>), TokenType("Text"), Stay) >>

\* (name)(\s*)(%\})
draft_block(name) ==
    ReGroups(<<Lit(name), In(Space, "*"), Lit(<<"%", "}">>)>>,
             << <<1, 1>>, <<2, 2>>, <<3, 3>> >>)

\* (end(tail))(\s*)(%\}), the inner group having no action
draft_end(tail) ==
    ReGroups(<<Lit(<<"e", "n", "d">>), tail, In(Space, "*"), Lit(<<"%", "}">>)>>,
             << <<1, 2>>, <<2, 2>>, <<3, 3>>, <<4, 4>> >>)

\* "tag-or-block".  The cycle rule, whose (?:([^\s:]*)(:))? is optional, is
\* written as two rules: with the optional part, then without it.
draft_tag_or_block ==
    << Rule(Re(<<Alt(<< <<"i", "f">>, <<"u", "n", "l", "e", "s", "s">>,
                        <<"e", "l", "s", "i", "f">>, <<"c", "a", "s", "e">> >>),
                 Ahead(Space)>>),
            TokenType("Keyword.Reserved"), To(<<"condition">>)),
       Rule(ReGroups(<<Lit(<<"w", "h", "e", "n">>), In(Space, "+")>>,
                     << <<1, 1>>, <<2, 2>> >>),
            bygroups(<<"Keyword.Reserved", "Whitespace">>), To(<<"_tmp_1">>)),
       Rule(draft_block(<<"e", "l", "s", "e">>),
            bygroups(<<"Keyword.Reserved", "Whitespace", "Punctuation">>), Pop),
       Rule(ReGroups(<<Lit(<<"c", "a", "p", "t", "u", "r", "e">>), In(Space, "+"),
                       NotIn(Space \cup {"%"}, "+"), In(Space, "*"),
                       Lit(<<"%", "}">>)>>,
                     << <<1, 1>>, <<2, 2>>, <<3, 3>>, <<4, 4>>, <<5, 5>> >>),
            bygroups(<<"Name.Tag", "Whitespace", "using variable", "Whitespace",
                       "Punctuation">>),
            Pop),
       Rule(draft_block(<<"c", "o", "m", "m", "e", "n", "t">>),
            bygroups(<<"Name.Tag", "Whitespace", "Punctuation">>),
            To(<<"comment">>)),
       Rule(draft_block(<<"r", "a", "w">>),
            bygroups(<<"Name.Tag", "Whitespace", "Punctuation">>), To(<<"raw">>)),
       Rule(draft_end(Alt(<< <<"c", "a", "s", "e">>,
                             <<"u", "n", "l", "e", "s", "s">>, <<"i", "f">> >>)),
            bygroups(<<"Keyword.Reserved", "None", "Whitespace", "Punctuation">>),
            Pop),
       Rule(draft_end(NotIn(Space \cup {"%"}, "+")),
            bygroups(<<"Name.Tag", "None", "Whitespace", "Punctuation">>), Pop),
       Rule(ReGroups(<<Lit(<<"c", "y", "c", "l", "e">>), In(Space, "+"),
                       NotIn(Space \cup {":"}, "*"), Lit(<<":">>),
                       In(Space, "*")>>,
                     << <<1, 1>>, <<2, 2>>, <<3, 3>>, <<4, 4>>, <<5, 5>> >>),
            bygroups(<<"Name.Tag", "Whitespace", "using generic", "Punctuation",
                       "Whitespace">>),
            To(<<"variable-tag-markup">>)),
       Rule(ReGroups(<<Lit(<<"c", "y", "c", "l", "e">>), In(Space, "+"),
                       In(Space, "*")>>,
                     << <<1, 1>>, <<2, 2>>, <<3, 3>> >>),
            bygroups(<<"Name.Tag", "Whitespace", "Whitespace">>),
            To(<<"variable-tag-markup">>)),
       Rule(ReGroups(<<NotIn(Space \cup {"%"}, "+"), In(Space, "*")>>,
                     << <<1, 1>>, <<2, 2>> >>),
            bygroups(<<"Name.Tag", "Whitespace">>), To(<<"tag-markup">>)) >>

draft_output ==
    draft_whitespace
    \o << Rule(Re(<<Lit(<<"}", "}">>)>>), TokenType("Punctuation"), Pop),
          Rule(Re(<<Lit(<<"|">>)>>), TokenType("Punctuation"),
               To(<<"filters">>)) >>

draft_filters ==
    draft_whitespace
    \o << Rule(Re(<<Lit(<<"}", "}">>)>>), TokenType("Punctuation"),
               To(<<"#pop", "#pop">>)),
          Rule(ReGroups(<<NotIn(Space \cup {"|", ":"}, "+"), In({":"}, "?"),
                          In(Space, "*")>>,
                        << <<1, 1>>, <<2, 2>>, <<3, 3>> >>),
               bygroups(<<"Name.Function", "Punctuation", "Whitespace">>),
               To(<<"filter-markup">>)) >>

\* "param-markup"
draft_param_markup ==
    draft_whitespace
    \o << Rule(ReGroups(<<NotIn(Space \cup {"=", ":"}, "+"), In(Space, "*"),
                          In({"=", ":"}, "1")>>,
                        << <<1, 1>>, <<2, 2>>, <<3, 3>> >>),
               bygroups(<<"Name.Attribute", "Whitespace", "Operator">>), Stay),
          Rule(ReGroups(<<Lit(<<"{", "{">>), In(Space, "*"),
                          NotIn(Space \cup {"}"}, "1"), In(Space, "*"),
                          Lit(<<"}", "}">>)>>,
                        << <<1, 1>>, <<2, 2>>, <<3, 3>>, <<4, 4>>, <<5, 5>> >>),
               bygroups(<<"Punctuation", "Whitespace", "using variable",
                          "Whitespace", "Punctuation">>),
               Stay) >>
    \o draft_string \o draft_number \o draft_keyword
    \o << Rule(Re(<<Lit(<<",">>)>>), TokenType("Punctuation"), Stay) >>

\* "default-param-markup" and "variable-param-markup"
draft_default_param_markup ==
    draft_param_markup
    \o << Rule(Re(<<NotIn({"\n"}, "1")>>), TokenType("Text"), Stay) >>

draft_variable_param_markup ==
    draft_param_markup \o draft_variable
    \o << Rule(Re(<<NotIn({"\n"}, "1")>>), TokenType("Text"), Stay) >>

draft_filter_markup ==
    << Rule(Re(<<Lit(<<"|">>)>>), TokenType("Punctuation"), Pop) >>
    \o draft_end_of_tag \o draft_default_param_markup

draft_tag_markup ==
    << Rule(Re(<<Lit(<<"%", "}">>)>>), TokenType("Punctuation"),
            To(<<"#pop", "#pop">>)) >>
    \o draft_default_param_markup

draft_variable_tag_markup ==
    << Rule(Re(<<Lit(<<"%", "}">>)>>), TokenType("Punctuation"),
            To(<<"#pop", "#pop">>)) >>
    \o draft_variable_param_markup

\* [\w.'"]+
draft_operand == In(WordChar \cup {".", "'", "\""}, "+")

draft_condition ==
    draft_end_of_block \o draft_whitespace
    \o << Rule(ReGroups(<<NotIn(Space \cup {"=", "!", ">", "<"}, "+"),
                          In(Space, "*"), In({"=", "!", ">", "<"}, "1"),
                          In({"="}, "?"), In(Space, "*"), NotIn(Space, "+"),
                          In(Space, "*"), Lit(<<"%", "}">>)>>,
                        << <<1, 1>>, <<2, 2>>, <<3, 4>>, <<5, 5>>, <<6, 6>>,
                           <<7, 7>>, <<8, 8>> >>),
               bygroups(<<"using generic", "Whitespace", "Operator",
                          "Whitespace", "using generic", "Whitespace",
                          "Punctuation">>),
               Stay),
          Rule(Re(<<WordBoundary, Lit(<<"!">>)>>), TokenType("Operator"), Stay),
          Rule(Re(<<WordBoundary, Lit(<<"n", "o", "t">>), WordBoundary>>),
               TokenType("Operator.Word"), Stay),
          Rule(ReGroups(<<draft_operand, In(Space, "+"),
                          Lit(<<"c", "o", "n", "t", "a", "i", "n", "s">>),
                          In(Space, "+"), draft_operand>>,
                        << <<1, 1>>, <<2, 2>>, <<3, 3>>, <<4, 4>>, <<5, 5>> >>),
               bygroups(<<"using generic", "Whitespace", "Operator.Word",
                          "Whitespace", "using generic">>),
               Stay) >>
    \o draft_generic \o draft_whitespace

\* combined("end-of-block", "whitespace", "generic")
draft_combined == draft_end_of_block \o draft_whitespace \o draft_generic

\* (\{%)(\s*)(name)(\s*)(%\})
draft_closing(name) ==
    ReGroups(<<Lit(<<"{", "%">>), In(Space, "*"), Lit(name), In(Space, "*"),
               Lit(<<"%", "}">>)>>,
             << <<1, 1>>, <<2, 2>>, <<3, 3>>, <<4, 4>>, <<5, 5>> >>)

draft_comment ==
    << Rule(draft_closing(<<"e", "n", "d", "c", "o", "m", "m", "e", "n", "t">>),
            bygroups(<<"Punctuation", "Whitespace", "Name.Tag", "Whitespace",
                       "Punctuation">>),
            To(<<"#pop", "#pop">>)),
       Rule(Re(<<NotIn({"\n"}, "1")>>), TokenType("Comment"), Stay) >>

draft_raw ==
    << Rule(Re(<<NotIn({"{"}, "+")>>), TokenType("Text"), Stay),
       Rule(draft_closing(<<"e", "n", "d", "r", "a", "w">>),
            bygroups(<<"Punctuation", "Whitespace", "Name.Tag", "Whitespace",
                       "Punctuation">>),
            Pop),
       Rule(Re(<<Lit(<<"{">>)>>), TokenType("Text"), Stay) >>

DraftStates ==
    {"root", "tag-or-block", "output", "filters", "filter-markup", "condition",
     "_tmp_1", "tag-markup", "variable-tag-markup", "comment", "raw", "generic",
     "variable"}

\* the processed table of the draft
draft_tokens ==
    [state \in DraftStates |->
        CASE state = "root" -> draft_root
          [] state = "tag-or-block" -> draft_tag_or_block
          [] state = "output" -> draft_output
          [] state = "filters" -> draft_filters
          [] state = "filter-markup" -> draft_filter_markup
          [] state = "condition" -> draft_condition
          [] state = "_tmp_1" -> draft_combined
          [] state = "tag-markup" -> draft_tag_markup
          [] state = "variable-tag-markup" -> draft_variable_tag_markup
          [] state = "comment" -> draft_comment
          [] state = "raw" -> draft_raw
          [] state = "generic" -> draft_generic
          [] state = "variable" -> draft_variable]

\* the table a class uses; the delegated classes inherit it
TokensOf(c) ==
    IF c \in Standard THEN StandardLiquidLexer_tokens
    ELSE IF c = Draft THEN draft_tokens
    ELSE Liquid2Lexer_tokens

-----------------------------------------------------------------------------
(* The actions of a rule.                                                  *)

Token(index, ttype, value) == [index |-> index, ttype |-> ttype, value |-> value]

(* using(this, state=...): the text w of a group is lexed on its own by a  *)
(* lexer of the same class started with the stack (root, state), and its   *)
(* tokens are yielded with their offsets shifted.  Only generic and        *)
(* variable are used as states; their rules do not change the state.       *)

\* w[i], or "" outside w
WAt(w, i) == IF i >= 1 /\ i <= Len(w) THEN w[i] ELSE ""

\* the index after the longest run of characters of S from i in w
RECURSIVE RunIn(_, _, _)
RunIn(w, i, S) == IF WAt(w, i) \in S THEN RunIn(w, i + 1, S) ELSE i

\* the index of the first character of w from i that is q, Len(w) + 1 if none
RECURSIVE Find(_, _, _)
Find(w, i, q) == IF i > Len(w) \/ w[i] = q THEN i ELSE Find(w, i + 1, q)

\* \b before w[i]
WBoundary(w, i) == (WAt(w, i - 1) \in WordChar) # (WAt(w, i) \in WordChar)

\* whether the word v stands in w at i
WordAt(w, i, v) ==
    /\ i + Len(v) - 1 <= Len(w)
    /\ \A k \in 1..Len(v) : w[i + k - 1] = v[k]

\* the first rule of `state` that matches w at i: its token type and the
\* index after the match; end = 0 when no rule matches
using_match(state, w, i) ==
    LET kw(v) == WBoundary(w, i) /\ WordAt(w, i, v) /\ WBoundary(w, i + Len(v))
        q(c) == WAt(w, i) = c /\ Find(w, i + 1, c) <= Len(w)
        d == RunIn(w, i, Digit)
        variable ==
            IF WAt(w, i) \in AsciiStart
            THEN [ttype |-> "Name.Variable", end |-> RunIn(w, i + 1, WordChar)]
            ELSE IF WAt(w, i) = "." /\ WAt(w, i - 1) \in WordChar
                    /\ WAt(w, i + 1) \in WordChar
            THEN [ttype |-> "Punctuation", end |-> i + 1]
            ELSE [ttype |-> "", end |-> 0]
    IN  IF state = "variable" THEN variable
        ELSE IF kw(<<"f", "a", "l", "s", "e">>)
        THEN [ttype |-> "Keyword.Constant", end |-> i + 5]
        ELSE IF kw(<<"t", "r", "u", "e">>)
        THEN [ttype |-> "Keyword.Constant", end |-> i + 4]
        ELSE IF q("'")
        THEN [ttype |-> "String.Single", end |-> Find(w, i + 1, "'") + 1]
        ELSE IF q("\"")
        THEN [ttype |-> "String.Double", end |-> Find(w, i + 1, "\"") + 1]
        ELSE IF d > i /\ WAt(w, d) = "." /\ RunIn(w, d + 1, Digit) > d + 1
        THEN [ttype |-> "Number.Float", end |-> RunIn(w, d + 1, Digit)]
        ELSE IF d > i
        THEN [ttype |-> "Number.Integer", end |-> d]
        ELSE variable

\* the tokens of w from index i, off being the offset of w in the input; a
\* character no rule matches is yielded as an Error token (a newline as Text)
RECURSIVE using_this(_, _, _, _)
using_this(state, w, i, off) ==
    IF i > Len(w) THEN <<>>
    ELSE LET m == using_match(state, w, i)
         IN  IF m.end # 0
             THEN <<Token(off + i - 1, m.ttype, SubSeq(w, i, m.end - 1))>>
                  \o using_this(state, w, m.end, off)
             ELSE <<Token(off + i - 1,
                          IF w[i] = "\n" THEN "Text" ELSE "Error", <<w[i]>>)>>
                  \o using_this(state, w, i + 1, off)

\* bygroups(...)'s callback: one token per group whose text is not empty; a
\* group whose action is None yields nothing, and a group whose action is
\* using(this, state=...) yields the tokens of its text
RECURSIVE bygroups_callback(_, _, _)
bygroups_callback(args, m, i) ==
    IF i > Len(args) THEN <<>>
    ELSE (CASE args[i] = "None" -> <<>>
            [] args[i] = "using generic" ->
                  using_this("generic", Group(m, i), 1, m.groups[i][1])
            [] args[i] = "using variable" ->
                  using_this("variable", Group(m, i), 1, m.groups[i][1])
            [] OTHER ->
                  IF Group(m, i) # <<>>
                  THEN <<Token(m.groups[i][1], args[i], Group(m, i))>>
                  ELSE <<>>)
         \o bygroups_callback(args, m, i + 1)

\* endcomment_groups with the index left where the match starts
RECURSIVE endcomment_groups_noadvance(_, _, _, _)
endcomment_groups_noadvance(m, types, i, index) ==
    IF i > Len(m.groups) \/ i > Len(types) THEN <<>>
    ELSE <<Token(index, types[i], Group(m, i))>>
         \o endcomment_groups_noadvance(m, types, i + 1, index)

\* the else branch of endcomment_callback: zip(match.groups(), types), with
\* index starting at match.start() and advanced by len(group)
RECURSIVE endcomment_groups(_, _, _, _)
endcomment_groups(m, types, i, index) ==
    IF i > Len(m.groups) \/ i > Len(types) THEN <<>>
    ELSE <<Token(index, types[i], Group(m, i))>>
         \o endcomment_groups(m, types, i + 1, index + Len(Group(m, i)))

\* endcomment_callback with a nested close yielding only the tag name
endcomment_callback_tagname(m, stk) ==
    [yield |->
        IF Len(stk) > 1 /\ stk[Len(stk) - 1] = "block-comment"
        THEN <<Token(m.start, "Comment", Group(m, 3))>>
        ELSE endcomment_groups(
                 m,
                 <<"Punctuation", "Whitespace", "Liquid.Tag.Name",
                   "Whitespace", "Punctuation">>,
                 1, m.start),
     stack |-> SubSeq(stk, 1, Len(stk) - 1),
     pos |-> m.end]

\* endcomment_callback testing the top of the stack, ctx.stack[-1]
endcomment_callback_top(m, stk) ==
    [yield |->
        IF Len(stk) > 1 /\ stk[Len(stk)] = "block-comment"
        THEN <<Token(m.start, "Comment", Group0(m))>>
        ELSE endcomment_groups(
                 m,
                 <<"Punctuation", "Whitespace", "Liquid.Tag.Name",
                   "Whitespace", "Punctuation">>,
                 1, m.start),
     stack |-> SubSeq(stk, 1, Len(stk) - 1),
     pos |-> m.end]

\* endcomment_callback popping two frames
endcomment_callback_poptwice(m, stk) ==
    [yield |->
        IF Len(stk) > 1 /\ stk[Len(stk) - 1] = "block-comment"
        THEN <<Token(m.start, "Comment", Group0(m))>>
        ELSE endcomment_groups(
                 m,
                 <<"Punctuation", "Whitespace", "Liquid.Tag.Name",
                   "Whitespace", "Punctuation">>,
                 1, m.start),
     stack |-> SubSeq(stk, 1, Len(stk) - 2),
     pos |-> m.end]

\* endcomment_callback: the tokens it yields, and ctx.stack and ctx.pos after it
endcomment_callback(m, stk) ==
    [yield |->
        IF Len(stk) > 1 /\ stk[Len(stk) - 1] = "block-comment"
        THEN <<Token(m.start, "Comment", Group0(m))>>
        ELSE endcomment_groups(
                 m,
                 <<"Punctuation", "Whitespace", "Liquid.Tag.Name",
                   "Whitespace", "Punctuation">>,
                 1, m.start),
     stack |-> SubSeq(stk, 1, Len(stk) - 1),
     pos |-> m.end]

\* a tuple of new states, applied one by one
RECURSIVE ApplyStates(_, _)
ApplyStates(stk, states) ==
    IF states = <<>> THEN stk
    ELSE ApplyStates(
             IF Head(states) = "#pop"
             THEN (IF Len(stk) > 1 THEN SubSeq(stk, 1, Len(stk) - 1) ELSE stk)
             ELSE IF Head(states) = "#push" THEN Append(stk, stk[Len(stk)])
             ELSE Append(stk, Head(states)),
             Tail(states))

\* the state transition of the driving loop
NewState(stk, new_state) ==
    CASE new_state.kind = "None" -> stk
      [] new_state.kind = "tuple" -> ApplyStates(stk, new_state.states)
      [] new_state.kind = "int" ->
            IF -new_state.n >= Len(stk) THEN SubSeq(stk, 1, 1)
            ELSE SubSeq(stk, 1, Len(stk) + new_state.n)
      [] new_state.kind = "#push" -> Append(stk, stk[Len(stk)])

-----------------------------------------------------------------------------
(* The driving loop: ExtendedRegexLexer.get_tokens_unprocessed, which      *)
(* StandardLiquidLexer.get_tokens_unprocessed iterates.                    *)

Top == stack[Len(stack)]

\* statetokens
StateTokens == TokensOf(cls)[Top]

\* the index of the first rule of statetokens that matches at the cursor, 0
\* when none does
RECURSIVE FirstFrom(_, _)
FirstFrom(rules, i) ==
    IF i > Len(rules) THEN 0
    ELSE IF ReMatch(rules[i].re, pos).ok THEN i ELSE FirstFrom(rules, i + 1)

FirstMatch == FirstFrom(StateTokens, 1)

\* whether statetokens has a rule with an action of this type (decided from
\* the table, before any pattern is matched)
HasAction(type) ==
    {k \in 1..Len(StateTokens) : StateTokens[k].action.type = type} # {}

\* the record of a loop iteration, kept in `last`
Step(branch, rule) ==
    [branch |-> branch, rule |-> rule, state |-> Top, stack |-> stack,
     pos |-> pos, ntoks |-> Len(toks)]

\* a rule whose action is a token type
RuleToken ==
    /\ pc = "run"
    /\ LET i == FirstMatch
       IN  /\ i # 0
           /\ StateTokens[i].action.type = "token"
           /\ LET m == ReMatch(StateTokens[i].re, pos)
              IN  /\ toks' = Append(toks, Token(pos, StateTokens[i].action.ttype,
                                               Group0(m)))
                  /\ pos' = m.end
           /\ stack' = NewState(stack, StateTokens[i].new_state)
           /\ last' = Step("token", i)
    /\ UNCHANGED <<cls, text, pc, result>>

\* a rule whose action is bygroups(...)
RuleByGroups ==
    /\ pc = "run"
    /\ HasAction("bygroups")
    /\ LET i == FirstMatch
       IN  /\ i # 0
           /\ StateTokens[i].action.type = "bygroups"
           /\ LET m == ReMatch(StateTokens[i].re, pos)
              IN  /\ toks' = toks \o bygroups_callback(
                                       StateTokens[i].action.args, m, 1)
                  /\ pos' = m.end
           /\ stack' = NewState(stack, StateTokens[i].new_state)
           /\ last' = Step("bygroups", i)
    /\ UNCHANGED <<cls, text, pc, result>>

\* the rule whose action is endcomment_callback
RuleEndComment ==
    /\ pc = "run"
    /\ HasAction("endcomment_callback")
    /\ LET i == FirstMatch
       IN  /\ i # 0
           /\ StateTokens[i].action.type = "endcomment_callback"
           /\ LET cb == endcomment_callback(ReMatch(StateTokens[i].re, pos),
                                            stack)
              IN  /\ toks' = toks \o cb.yield
                  /\ pos' = cb.pos
                  /\ stack' = NewState(cb.stack, StateTokens[i].new_state)
           /\ last' = Step("endcomment", i)
    /\ UNCHANGED <<cls, text, pc, result>>

\* a rule without action: default(...)
RuleDefault ==
    /\ pc = "run"
    /\ HasAction("None")
    /\ LET i == FirstMatch
       IN  /\ i # 0
           /\ StateTokens[i].action.type = "None"
           /\ stack' = NewState(stack, StateTokens[i].new_state)
           /\ last' = Step("default", i)
    /\ UNCHANGED <<cls, text, pos, toks, pc, result>>

\* no rule matches at a newline: the stack is reset to root
NewlineReset ==
    /\ pc = "run"
    /\ pos < Len(text)
    /\ text[pos + 1] = "\n"
    /\ FirstMatch = 0
    /\ stack' = <<"root">>
    /\ toks' = Append(toks, Token(pos, "Text", <<"\n">>))
    /\ pos' = pos + 1
    /\ last' = Step("newline", 0)
    /\ UNCHANGED <<cls, text, pc, result>>

\* no rule matches: one Error token for one character
ErrorToken ==
    /\ pc = "run"
    /\ pos < Len(text)
    /\ text[pos + 1] # "\n"
    /\ FirstMatch = 0
    /\ toks' = Append(toks, Token(pos, "Error", <<text[pos + 1]>>))
    /\ pos' = pos + 1
    /\ last' = Step("error", 0)
    /\ UNCHANGED <<cls, text, stack, pc, result>>

\* the end of the input raising an error when a construct is left open
EndOfInput_raising ==
    /\ pc = "run"
    /\ pos >= Len(text)
    /\ FirstMatch = 0
    /\ pc' = "done"
    /\ result' = IF Len(stack) > 1 THEN "UnterminatedConstruct" ELSE "StopIteration"
    /\ last' = Step("eof", 0)
    /\ UNCHANGED <<cls, text, pos, stack, toks>>

\* no rule matches at the end of the input: the loop breaks and the
\* generator returns
EndOfInput ==
    /\ pc = "run"
    /\ pos >= Len(text)
    /\ FirstMatch = 0
    /\ pc' = "done"
    /\ result' = "StopIteration"
    /\ last' = Step("eof", 0)
    /\ UNCHANGED <<cls, text, pos, stack, toks>>

Next ==
    \/ RuleToken
    \/ RuleByGroups
    \/ RuleEndComment
    \/ RuleDefault
    \/ NewlineReset
    \/ ErrorToken
    \/ EndOfInput

\* the state after LexerContext(text, 0), for a class c and an input t
Start(c, t) ==
    /\ cls = c
    /\ text = t
    /\ pos = 0
    /\ stack = <<"root">>
    /\ toks = <<>>
    /\ pc = "run"
    /\ result = ""
    /\ last = [branch |-> "init", rule |-> 0, state |-> "root",
               stack |-> <<"root">>, pos |-> 0, ntoks |-> 0]

-----------------------------------------------------------------------------
(* Inputs.  An input is a concatenation of fragments of Liquid markup, or  *)
(* one of the sample templates.                                            *)

\* the concatenations of at most n fragments
RECURSIVE Concats(_, _)
Concats(frags, n) ==
    IF n = 0 THEN {<<>>}
    ELSE LET shorter == Concats(frags, n - 1)
         IN  shorter \cup {a \o f : a \in shorter, f \in frags}

MaxFrags == 3

\* delimiters, a trim marker, whitespace, whole comment tags, a tag name and
\* the characters of a path and a string
Frags ==
    { <<"{", "%">>, <<"{", "{">>, <<"%", "}">>, <<"}", "}">>, <<"{">>,
      <<"-">>, <<" ">>, <<"\n">>,
      <<"{", "%", "c", "o", "m", "m", "e", "n", "t", "%", "}">>,
      <<"{", "%", "e", "n", "d", "c", "o", "m", "m", "e", "n", "t", "%", "}">>,
      <<"l", "i", "q", "u", "i", "d">>, <<"a">>, <<".">>, <<"'">> }

\* {%comment%}{%endcomment%}
CommentNoSpace ==
    <<"{", "%", "c", "o", "m", "m", "e", "n", "t", "%", "}",
      "{", "%", "e", "n", "d", "c", "o", "m", "m", "e", "n", "t", "%", "}">>

\* {% comment %}A{% comment %}B{% endcomment %}C{% endcomment %}
CommentSample ==
    <<"{", "%", " ", "c", "o", "m", "m", "e", "n", "t", " ", "%", "}", "A",
      "{", "%", " ", "c", "o", "m", "m", "e", "n", "t", " ", "%", "}", "B",
      "{", "%", " ", "e", "n", "d", "c", "o", "m", "m", "e", "n", "t", " ",
      "%", "}", "C",
      "{", "%", " ", "e", "n", "d", "c", "o", "m", "m", "e", "n", "t", " ",
      "%", "}">>

\* {{ foo[bar]["a b"][1] }}
PathSample ==
    <<"{", "{", " ", "f", "o", "o", "[", "b", "a", "r", "]", "[", "\"", "a",
      " ", "b", "\"", "]", "[", "1", "]", " ", "}", "}">>

\* {% render 'x', key: 1 %}
RenderSample ==
    <<"{", "%", " ", "r", "e", "n", "d", "e", "r", " ", "'", "x", "'", ",",
      " ", "k", "e", "y", ":", " ", "1", " ", "%", "}">>

\* {% liquid\nif a\necho a\nendif %}
LiquidSample ==
    <<"{", "%", " ", "l", "i", "q", "u", "i", "d", "\n", "i", "f", " ", "a",
      "\n", "e", "c", "h", "o", " ", "a", "\n", "e", "n", "d", "i", "f", " ",
      "%", "}">>

\* {%liquid\n%}{{a.b !}} and {liquid\n%}: with the samples above, templates
\* that take every branch of the driving loop in either class
BranchSamples ==
    { <<"{", "%", "l", "i", "q", "u", "i", "d", "\n", "%", "}", "{", "{",
        "a", ".", "b", " ", "!", "}", "}">>,
      <<"{", "l", "i", "q", "u", "i", "d", "\n", "%", "}">> }

Samples ==
    {CommentNoSpace, CommentSample, PathSample, RenderSample, LiquidSample}
    \cup BranchSamples

Classes == {"StandardLiquidLexer", "Liquid2Lexer"}

Init == \E c \in Classes : \E t \in Concats(Frags, MaxFrags) \cup Samples : Start(c, t)

Spec == Init /\ [][Next]_vars

\* Templates made of comment tags: opening and closing tags with and without
\* whitespace and trim markers, and comment text holding a brace.
MaxCommentFrags == 4

CommentFrags ==
    { <<"{", "%", " ", "c", "o", "m", "m", "e", "n", "t", " ", "%", "}">>,
      <<"{", "%", "-", "c", "o", "m", "m", "e", "n", "t", "-", "%", "}">>,
      <<"{", "%", " ", "e", "n", "d", "c", "o", "m", "m", "e", "n", "t", " ",
        "%", "}">>,
      <<"{", "%", "-", "e", "n", "d", "c", "o", "m", "m", "e", "n", "t", "%",
        "}">>,
      <<"A", "{">> }

InitComment ==
    \E c \in Classes :
        \E t \in Concats(CommentFrags, MaxCommentFrags) \cup Samples : Start(c, t)

SpecComment == InitComment /\ [][Next]_vars

\* Templates made of an opening that enters one of the expression states and
\* of expression fragments: names, whitespace, the characters of a named
\* argument, the filter pipe and the path dot.
MaxExprFrags == 3

ExprFrags ==
    { <<"a">>, <<"t", "r", "u", "e">>, <<"i", "n">>, <<" ">>, <<"\n">>,
      <<":">>, <<"=">>, <<"|">>, <<".">> }

\* {{, {%a , {%liquid echo  and {liquid echo
ExprOpenings ==
    { <<"{", "{">>, <<"{", "%", "a", " ">>,
      <<"{", "%", "l", "i", "q", "u", "i", "d", " ", "e", "c", "h", "o", " ">>,
      <<"{", "l", "i", "q", "u", "i", "d", " ", "e", "c", "h", "o", " ">> }

InitExpr ==
    \E c \in Classes :
        \E t \in {o \o e : o \in ExprOpenings, e \in Concats(ExprFrags, MaxExprFrags)}
                 \cup Samples :
            Start(c, t)

SpecExpr == InitExpr /\ [][Next]_vars

\* Templates made of an opening that enters one of the expression states and
\* of what can stand before a closing delimiter: a name, a number,
\* whitespace and the trim markers.
MaxTrimFrags == 3

TrimFrags ==
    { <<"a">>, <<"1">>, <<" ">>, <<"-">>, <<"~">>, <<"}", "}">>, <<"%", "}">> }

InitTrim ==
    \E c \in Classes :
        \E t \in {o \o e : o \in ExprOpenings, e \in Concats(TrimFrags, MaxTrimFrags)}
                 \cup Samples :
            Start(c, t)

SpecTrim == InitTrim /\ [][Next]_vars

\* Every lexer configuration, the delegated subclasses included, on templates
\* made of whole constructs: comment and raw tags, template text with a
\* brace, an output statement and a control-flow tag.
AllClasses == Standard \cup Liquid2

MaxKindFrags == 3

KindFrags ==
    { <<"{", "%", " ", "c", "o", "m", "m", "e", "n", "t", " ", "%", "}">>,
      <<"{", "%", " ", "e", "n", "d", "c", "o", "m", "m", "e", "n", "t", " ",
        "%", "}">>,
      <<"{", "%", " ", "r", "a", "w", " ", "%", "}">>,
      <<"{", "%", " ", "e", "n", "d", "r", "a", "w", " ", "%", "}">>,
      <<"x", "{">>,
      <<"{", "{", " ", "a", " ", "}", "}">>,
      <<"{", "%", " ", "i", "f", " ", "a", " ", "%", "}">> }

InitKinds ==
    \E c \in AllClasses :
        \E t \in Concats(KindFrags, MaxKindFrags) \cup Samples : Start(c, t)

SpecKinds == InitKinds /\ [][Next]_vars

\* Templates made of what pushes and pops frames, balanced or not: openings
\* of an output statement, a liquid block, comment and raw tags, stray
\* closing tags and delimiters, brackets, a quote, a newline.
MaxStackFrags == 3

StackFrags ==
    { <<"{", "{">>,
      <<"{", "%", "l", "i", "q", "u", "i", "d", " ", "i", "f", " ">>,
      <<"{", "%", "c", "o", "m", "m", "e", "n", "t", "%", "}">>,
      <<"{", "%", "e", "n", "d", "c", "o", "m", "m", "e", "n", "t", "%", "}">>,
      <<"{", "%", "r", "a", "w", "%", "}">>,
      <<"{", "%", "e", "n", "d", "r", "a", "w", "%", "}">>,
      <<"%", "}">>, <<"}", "}">>, <<"[">>, <<"]">>, <<"'">>, <<"\n">> }

InitStack ==
    \E c \in Classes :
        \E t \in Concats(StackFrags, MaxStackFrags) \cup Samples : Start(c, t)

SpecStack == InitStack /\ [][Next]_vars

\* String literals: an opening quote of an output statement followed by
\* quotes, backslashes, other characters, newlines and closing delimiters.
MaxStringFrags == 3

StringFrags ==
    { <<"'">>, <<"\"">>, <<"\\">>, <<"x">>, <<"\n">>, <<"}", "}">> }

StringOpenings == { <<"{", "{", "'">>, <<"{", "{", "\"">> }

InitString ==
    \E c \in Classes :
        \E t \in {o \o e : o \in StringOpenings,
                           e \in Concats(StringFrags, MaxStringFrags)}
                 \cup Samples :
            Start(c, t)

SpecString == InitString /\ [][Next]_vars

\* Numbers: the opening of an output statement, of a tag or of a line of a
\* liquid block, followed by numbers, dots, brackets, names and blanks.
MaxNumberFrags == 3

NumberFrags ==
    { <<"1", ".", "5">>, <<"1">>, <<".">>, <<"[">>, <<"]">>, <<"a">>, <<" ">> }

NumberOpenings ==
    { <<"{", "{">>, <<"{", "%", "a", " ">>,
      <<"{", "%", "l", "i", "q", "u", "i", "d", " ", "i", "f", " ">> }

InitNumber ==
    \E c \in Classes :
        \E t \in {o \o e : o \in NumberOpenings,
                           e \in Concats(NumberFrags, MaxNumberFrags)}
                 \cup Samples :
            Start(c, t)

SpecNumber == InitNumber /\ [][Next]_vars

\* Inline comments: the opening {%# followed by comment text, trim markers,
\* percent signs and closing delimiters.
MaxInlineFrags == 3

InlineFrags ==
    { <<"x">>, <<" ">>, <<"-">>, <<"~">>, <<"+">>, <<"%">>, <<"%", "}">> }

InlineOpening == <<"{", "%", "#">>

InitInline ==
    \E c \in Classes :
        \E t \in {InlineOpening \o e : e \in Concats(InlineFrags, MaxInlineFrags)}
                 \cup Samples :
            Start(c, t)

SpecInline == InitInline /\ [][Next]_vars

\* Tags: the opening of a tag followed by special tag names, letters that
\* extend them, blanks and the closing delimiter.
MaxTagFrags == 3

TagFrags ==
    { <<"i", "f">>, <<"l", "i", "q", "u", "i", "d">>,
      <<"c", "o", "m", "m", "e", "n", "t">>, <<"r", "a", "w">>,
      <<"x">>, <<"_">>, <<" ">>, <<"%", "}">> }

TagOpenings == { <<"{", "%">>, <<"{", "%", "-", " ">> }

InitTag ==
    \E c \in Classes :
        \E t \in {o \o e : o \in TagOpenings, e \in Concats(TagFrags, MaxTagFrags)}
                 \cup Samples :
            Start(c, t)

SpecTag == InitTag /\ [][Next]_vars

\* Templates for the earlier draft, made of complete tags, the tags opening
\* and closing a comment and a raw block, the parts of an output statement
\* with a filter, and text.
MaxDraftFrags == 3

DraftFrags ==
    { <<"{", "%", " ", "a", " ", "%", "}">>,
      <<"{", "%", " ", "i", "f", " ", "a", " ", "%", "}">>,
      <<"{", "%", " ", "c", "o", "m", "m", "e", "n", "t", " ", "%", "}">>,
      <<"{", "%", " ", "e", "n", "d", "c", "o", "m", "m", "e", "n", "t", " ",
        "%", "}">>,
      <<"{", "%", " ", "r", "a", "w", " ", "%", "}">>,
      <<"{", "%", " ", "e", "n", "d", "r", "a", "w", " ", "%", "}">>,
      <<"{", "{", " ", "a", " ">>, <<"|", " ", "b", " ">>, <<"}", "}">>,
      <<"x">> }

\* the draft on these templates; the two later lexers on the samples
InitDraft ==
    \/ \E t \in Concats(DraftFrags, MaxDraftFrags) : Start(Draft, t)
    \/ \E c \in Classes : \E t \in Samples : Start(c, t)

SpecDraft == InitDraft /\ [][Next]_vars

-----------------------------------------------------------------------------
(* The token stream a class yields.                                        *)

\* the classes configured for use in a DelegatingLexer
Delegated == {"_DelegatedLiquidLexer", "_DelegatedLiquid2Lexer"}

\* the class attributes naming the types that replace Token.Liquid.*
delimiter_token_type(c) ==
    IF c \in Delegated THEN "Comment.Preproc" ELSE "Punctuation"

control_flow_token_type(c) ==
    IF c \in Delegated THEN "Keyword" ELSE "Keyword.Reserved"

tag_name_token_type(c) ==
    IF c \in Delegated THEN "Keyword" ELSE "Name.Tag"

text_token_type(c) ==
    IF c \in Delegated THEN "Other" ELSE "Text"

\* StandardLiquidLexer.get_tokens_unprocessed over the stream ts of the
\* driving loop; Liquid2Lexer does not override it and yields ts as it is
get_tokens_unprocessed(c, ts) ==
    IF c \in Standard
    THEN [i \in 1..Len(ts) |->
            [ts[i] EXCEPT !.ttype =
                CASE @ = "Liquid.Text"        -> text_token_type(c)
                  [] @ = "Liquid.Delimiter"   -> delimiter_token_type(c)
                  [] @ = "Liquid.Tag.Name"    -> tag_name_token_type(c)
                  [] @ = "Liquid.ControlFlow" -> control_flow_token_type(c)
                  [] OTHER                    -> @]]
    ELSE ts

-----------------------------------------------------------------------------
(* Properties.                                                             *)

\* the texts of tokens ts, concatenated in emission order
RECURSIVE Texts(_)
Texts(ts) == IF ts = <<>> THEN <<>> ELSE Head(ts).value \o Texts(Tail(ts))

\* the tokens the lexer has yielded so far
Yielded == get_tokens_unprocessed(cls, toks)

\* the types a class gives to markup delimiters, tag names and template text
Delimiter ==
    IF cls \in Standard THEN delimiter_token_type(cls) ELSE "Liquid.Delimiter"

TagName == IF cls \in Standard THEN tag_name_token_type(cls) ELSE "Liquid.Tag.Name"

TemplateText == IF cls \in Standard THEN text_token_type(cls) ELSE "Liquid.Text"

\* the tokens the last loop iteration yielded, and the text it consumed
NewToks == SubSeq(Yielded, last.ntoks + 1, Len(toks))

Consumed == SubSeq(text, last.pos + 1, pos)

\* whether the last loop iteration was one that handled input
Stepped == last.branch \notin {"init", "eof"}

(* C1: coverage.  The texts of the tokens yielded so far, concatenated in  *)
(* emission order, are the input up to the cursor; when the loop has       *)
(* ended they are the whole input.  This holds whichever branch of the     *)
(* loop yielded them (token rule, bygroups, endcomment_callback, default,  *)
(* the no-match fallback).                                                 *)
C1_Coverage ==
    /\ Texts(Yielded) = SubSeq(text, 1, pos)
    /\ pc = "done" => Texts(Yielded) = text

\* a run that used a token rule, bygroups, the default pop and both no-match
\* fallbacks has ended
C1_Witness ==
    /\ pc = "done"
    /\ cls = "StandardLiquidLexer"
    /\ text \in BranchSamples
    /\ \E i \in 1..Len(toks) : Yielded[i].ttype = "Error"
    /\ \E i \in 1..Len(toks) : Yielded[i].ttype = "Text"

(* C2: contiguity.  The first token starts at offset 0 and every token     *)
(* starts where the token before it ends.                                  *)
C2_Contiguity ==
    /\ toks # <<>> => Yielded[1].index = 0
    /\ \A i \in 1..(Len(toks) - 1) :
          Yielded[i + 1].index = Yielded[i].index + Len(Yielded[i].value)

\* the five tokens of an outermost endcomment have been yielded
C2_Witness ==
    /\ last.branch = "endcomment"
    /\ Len(last.stack) = 2
    /\ Len(NewToks) = 5
    /\ NewToks[3].index > NewToks[1].index

(* C3: strict ordering.  No token has an empty text and the start offsets  *)
(* of successive tokens strictly increase, also for the tokens of the      *)
(* outermost endcomment when its whitespace groups are empty.              *)
C3_StrictOrder ==
    /\ \A i \in 1..Len(toks) : Yielded[i].value # <<>>
    /\ \A i \in 1..(Len(toks) - 1) : Yielded[i].index < Yielded[i + 1].index

\* an opening and a closing comment tag at offset p
OpenAt(p) == ReMatch(FiveGroups(cls, <<"c", "o", "m", "m", "e", "n", "t">>), p)

CloseAt(p) ==
    ReMatch(FiveGroups(cls, <<"e", "n", "d", "c", "o", "m", "m", "e", "n", "t">>), p)

\* the token types that mark a delimiter, a whitespace run and a tag name, by
\* group of a five-group tag pattern; endcomment_callback marks delimiters
\* Punctuation
TagKinds ==
    << {Delimiter, "Punctuation"}, {"Whitespace"}, {TagName}, {"Whitespace"},
       {Delimiter, "Punctuation"} >>

\* ts are the tokens of tag match m decomposed: apart from tokens with no
\* text, one token per non-empty group, of the group's kind
Decomposed(m, ts) ==
    LET vis == SelectSeq(ts, LAMBDA t : t.value # <<>>)
        ne  == {g \in 1..5 : Group(m, g) # <<>>}
    IN  /\ Len(vis) = Cardinality(ne)
        /\ \A g \in ne :
              \E i \in 1..Len(vis) :
                  /\ vis[i].index = m.groups[g][1]
                  /\ vis[i].value = Group(m, g)
                  /\ vis[i].ttype \in TagKinds[g]

\* ts is the single Comment token holding the text the step consumed
OneComment(ts) == ts = <<Token(last.pos, "Comment", Consumed)>>

(* C4: comment nesting.  An opening comment tag met in root is decomposed  *)
(* into delimiter, whitespace and tag-name tokens and pushes one           *)
(* block-comment frame.  Inside a block comment an opening tag is one      *)
(* Comment token and pushes one more frame; a closing tag pops exactly one *)
(* frame and is one Comment token unless it is the outermost, which is     *)
(* decomposed and leaves the stack [root]; everything else is Comment and  *)
(* leaves the stack alone.                                                 *)
C4_CommentNesting ==
    /\ (last.state = "root" /\ Stepped /\ OpenAt(last.pos).ok) =>
          /\ pos = OpenAt(last.pos).end
          /\ stack = <<"root", "block-comment">>
          /\ Decomposed(OpenAt(last.pos), NewToks)
    /\ (last.state = "block-comment" /\ Stepped) =>
          /\ \A i \in 2..Len(last.stack) : last.stack[i] = "block-comment"
          /\ last.stack[1] = "root"
          /\ IF OpenAt(last.pos).ok
             THEN /\ pos = OpenAt(last.pos).end
                  /\ stack = Append(last.stack, "block-comment")
                  /\ OneComment(NewToks)
             ELSE IF CloseAt(last.pos).ok
             THEN /\ pos = CloseAt(last.pos).end
                  /\ stack = SubSeq(last.stack, 1, Len(last.stack) - 1)
                  /\ IF Len(last.stack) > 2
                     THEN OneComment(NewToks)
                     ELSE /\ Decomposed(CloseAt(last.pos), NewToks)
                          /\ stack = <<"root">>
             ELSE /\ stack = last.stack
                  /\ OneComment(NewToks)

\* the outermost close of a comment that held a nested comment and text
C4_Witness ==
    /\ last.state = "block-comment"
    /\ last.branch = "endcomment"
    /\ stack = <<"root">>
    /\ \E i \in 1..last.ntoks : Yielded[i].ttype = "Comment" /\ OpenAt(Yielded[i].index).ok
    /\ \E i \in 1..last.ntoks : Yielded[i].ttype = "Comment" /\ CloseAt(Yielded[i].index).ok
    /\ \E i \in 1..last.ntoks : Yielded[i].value = <<"A">>

\* {% with an optional trim marker, optional whitespace and the word liquid,
\* at offset p
LiquidTagAt(p) ==
    ReMatch(ReGroups(TagOpen(cls) \o <<Lit(<<"l", "i", "q", "u", "i", "d">>)>>,
                     << <<1, 2>>, <<3, 3>>, <<4, 4>> >>), p)

(* C5: line-statement trigger.  When root meets {% (with an optional trim  *)
(* marker), optional whitespace and the word liquid, that much is consumed *)
(* as delimiter, whitespace and tag name, and the stack becomes            *)
(* [root, line-statements]: the body is not tokenized in tag-expression.   *)
C5_LiquidTrigger ==
    (last.state = "root" /\ Stepped /\ LiquidTagAt(last.pos).ok) =>
        /\ pos = LiquidTagAt(last.pos).end
        /\ stack = <<"root", "line-statements">>
        /\ LET m == LiquidTagAt(last.pos)
           IN  NewToks =
                   <<Token(m.start, Delimiter, Group(m, 1))>>
                   \o (IF Group(m, 2) # <<>>
                       THEN <<Token(m.groups[2][1], "Whitespace", Group(m, 2))>>
                       ELSE <<>>)
                   \o <<Token(m.groups[3][1], TagName, Group(m, 3))>>

\* a statement's end in line-expression: optional blanks and a newline at p
NewlineAt(p) == ReMatch(Re(<<In({" ", "\t", "\r"}, "*"), Lit(<<"\n">>)>>), p)

\* a statement's control-flow keyword or tag name at p
StatementNameAt(p) == ReMatch(Re(<<In(Lower, "1"), In(TagChar, "+")>>), p)

\* the closing delimiter of a tag at p
TagCloseAt(p) == ReMatch(Re(TagClose(cls)), p)

(* C6: dual termination.  In line-statements a statement's keyword or tag *)
(* name pushes line-expression.  In line-expression a newline that ends    *)
(* the statement pops one frame, back to line-statements, and the closing  *)
(* delimiter pops two frames in one step; in line-statements the closing   *)
(* delimiter pops one.  For the sample {% liquid\nif a\necho a\nendif %}   *)
(* the stack is [root, line-statements] whenever the cursor stands just    *)
(* after a newline and [root] once the final %} is consumed.               *)
C6_DualTermination ==
    /\ (last.state = "line-statements" /\ Stepped /\ StatementNameAt(last.pos).ok) =>
          stack = Append(last.stack, "line-expression")
    /\ (last.state = "line-expression" /\ Stepped /\ NewlineAt(last.pos).ok) =>
          /\ stack = SubSeq(last.stack, 1, Len(last.stack) - 1)
          /\ Top = "line-statements"
    /\ (last.state = "line-expression" /\ Stepped /\ TagCloseAt(last.pos).ok) =>
          stack = SubSeq(last.stack, 1, Len(last.stack) - 2)
    /\ (last.state = "line-statements" /\ Stepped /\ TagCloseAt(last.pos).ok) =>
          stack = SubSeq(last.stack, 1, Len(last.stack) - 1)
    /\ text = LiquidSample =>
          /\ (pos > 0 /\ text[pos] = "\n") => stack = <<"root", "line-statements">>
          /\ pos = Len(text) => stack = <<"root">>

\* the types and texts of the tokens yielded, Whitespace tokens left out
Significant ==
    LET ts == SelectSeq(Yielded, LAMBDA t : t.ttype # "Whitespace")
    IN  [i \in 1..Len(ts) |-> <<ts[i].ttype, ts[i].value>>]

\* the path sample has been tokenized to its end
PathSampleDone == pc = "done" /\ text = PathSample

\* the tokens of foo[bar] and of [1] with the closing delimiter
PathSampleHead ==
    << <<Delimiter, <<"{", "{">> >>, <<"Name.Variable", <<"f", "o", "o">> >>,
       <<"Punctuation", <<"[">> >>, <<"Name.Variable", <<"b", "a", "r">> >>,
       <<"Punctuation", <<"]">> >>, <<"Punctuation", <<"[">> >> >>

PathSampleTail ==
    << <<"Punctuation", <<"]">> >>, <<"Punctuation", <<"[">> >>,
       <<"Number.Integer", <<"1">> >>, <<"Punctuation", <<"]">> >>,
       <<Delimiter, <<"}", "}">> >> >>

(* C7 as stated: for {{ foo[bar]["a b"][1] }} the tokens other than        *)
(* Whitespace are {{, foo, [, bar, ], [, one string token "a b" with its   *)
(* quotes, ], [, 1, ], }}; no token is Error and the stack ends as [root]. *)
C7_OneStringToken ==
    PathSampleDone =>
        /\ Significant = PathSampleHead
                         \o << <<"String.Double", <<"\"", "a", " ", "b", "\"">> >> >>
                         \o PathSampleTail
        /\ \A i \in 1..Len(Yielded) : Yielded[i].ttype # "Error"
        /\ stack = <<"root">>

(* C7, amended: for {{ foo[bar]["a b"][1] }} the tokens other than         *)
(* Whitespace are {{, foo, [, bar, ], [, three string tokens (the opening  *)
(* quote, a b, the closing quote), ], [, 1, ], }}; no token is Error and   *)
(* the stack ends as [root].                                               *)
C7_PathChain ==
    PathSampleDone =>
        /\ Significant = PathSampleHead
                         \o << <<"String.Double", <<"\"">> >>,
                               <<"String.Double", <<"a", " ", "b">> >>,
                               <<"String.Double", <<"\"">> >> >>
                         \o PathSampleTail
        /\ \A i \in 1..Len(Yielded) : Yielded[i].ttype # "Error"
        /\ stack = <<"root">>

\* the sample has been tokenized to its end, through three path frames
C7_Witness ==
    /\ PathSampleDone
    /\ Len(Yielded) = 16
    /\ Yielded[14].value = <<"]">>

\* the states that tokenize an expression
ExprStates == {"tag-expression", "output-expression", "line-expression"}

\* v spells an identifier
IsIdent(v) ==
    /\ v # <<>>
    /\ v[1] \in IdentStart
    /\ \A i \in 2..Len(v) : v[i] \in IdentChar

\* optional whitespace and then : or = at offset p
AssignAfter(p) == ReMatch(Re(<<In(Space, "*"), In({":", "="}, "1")>>), p).ok

(* C8 as stated: in the three expression states every identifier that is   *)
(* followed, after optional whitespace, by : or = (and so is not a path     *)
(* start) is emitted as Attribute.                                          *)
C8_EveryIdentifier ==
    (last.state \in ExprStates /\ Stepped) =>
        \A i \in 1..Len(NewToks) :
            (/\ IsIdent(NewToks[i].value)
             /\ AssignAfter(NewToks[i].index + Len(NewToks[i].value)))
            => NewToks[i].ttype = "Name.Attribute"

\* an identifier, optional whitespace and then : or = at offset p
KeyAt(p) ==
    ReMatch(ReGroups(Ident \o <<In(Space, "*"), In({":", "="}, "1")>>,
                     << <<1, 2>>, <<3, 3>>, <<4, 4>> >>), p)

\* the filter pipe, optional whitespace and a name at offset p
FilterAt(p) ==
    ReMatch(ReGroups(<<Lit(<<"|">>),
                       In(IF cls \in Standard THEN {} ELSE {"|"}, "?"),
                       In(Space, "*")>> \o Ident,
                     << <<1, 2>>, <<3, 3>>, <<4, 5>> >>), p)

(* C8, amended: in the three expression states an identifier at the cursor *)
(* that is followed, after optional whitespace, by : or = is emitted as    *)
(* Attribute (with the whitespace as a Whitespace token) and the cursor    *)
(* stops before the : or =, which a later step emits as its own            *)
(* Punctuation (:) or Operator (=) token; the name that follows a filter   *)
(* pipe is emitted as FilterName by the step that consumes the pipe, also  *)
(* when : or = follows it.  In {% render 'x', key: 1 %} key is Attribute.  *)
C8_NamedArgument ==
    /\ (last.state \in ExprStates /\ Stepped /\ KeyAt(last.pos).ok) =>
          LET m == KeyAt(last.pos)
          IN  /\ NewToks = <<Token(m.start, "Name.Attribute", Group(m, 1))>>
                           \o (IF Group(m, 2) # <<>>
                               THEN <<Token(m.groups[2][1], "Whitespace",
                                            Group(m, 2))>>
                               ELSE <<>>)
              /\ pos = m.groups[3][1]
              /\ stack = last.stack
    /\ (last.state \in ExprStates /\ Stepped /\ At(last.pos) \in {":", "="}) =>
          /\ Len(NewToks) = 1
          /\ NewToks[1].index = last.pos
          /\ NewToks[1].value[1] = At(last.pos)
          /\ NewToks[1].ttype =
                (IF At(last.pos) = ":" THEN "Punctuation" ELSE "Operator")
          /\ stack = last.stack
    /\ (last.state \in ExprStates /\ Stepped /\ FilterAt(last.pos).ok) =>
          LET m == FilterAt(last.pos)
          IN  /\ NewToks[Len(NewToks)] =
                     Token(m.groups[3][1], "Name.Function", Group(m, 3))
              /\ pos = m.end
    /\ (text = RenderSample /\ pc = "done") =>
          /\ \E i \in 1..Len(Yielded) :
                Yielded[i] = Token(15, "Name.Attribute", <<"k", "e", "y">>)
          /\ \E i \in 1..Len(Yielded) :
                Yielded[i] = Token(18, "Punctuation", <<":">>)

\* a : or = has just been emitted on its own, right after a key and the
\* whitespace that followed it
C8_Witness ==
    /\ last.state \in ExprStates
    /\ Stepped
    /\ At(last.pos) \in {":", "="}
    /\ last.ntoks >= 2
    /\ Yielded[last.ntoks].ttype = "Whitespace"
    /\ Yielded[last.ntoks - 1].ttype = "Name.Attribute"
    /\ Len(NewToks) = 1

\* the text at offset p begins a {% or {{ sequence that a rule of root
\* recognises
RecognisedAt(p) ==
    /\ At(p) = "{"
    /\ At(p + 1) \in {"%", "{"}
    /\ \E k \in 2..8 : ReMatch(TokensOf(cls)["root"][k].re, p).ok

(* C9: root robustness.  With root on top of the stack some rule matches   *)
(* at every character, so no Error token is emitted; a { that does not     *)
(* begin a recognised {% or {{ sequence is emitted as a one-character Text *)
(* token and leaves the stack [root]; and scanning goes on to the end of   *)
(* the input.                                                              *)
C9_RootRobust ==
    /\ (last.state = "root" /\ Stepped) =>
          /\ last.branch \in {"token", "bygroups"}
          /\ \A i \in 1..Len(NewToks) : NewToks[i].ttype # "Error"
    /\ (last.state = "root" /\ Stepped /\ At(last.pos) = "{"
            /\ ~RecognisedAt(last.pos)) =>
          /\ NewToks = <<Token(last.pos, TemplateText, <<"{">>)>>
          /\ pos = last.pos + 1
          /\ stack = <<"root">>
    /\ pc = "done" => pos = Len(text)

\* how the end of the token stream could report an open construct: the
\* generator ends otherwise than by returning, or a token marks the end of
\* the input
EndReport ==
    \/ result # "StopIteration"
    \/ \E i \in 1..Len(Yielded) : Yielded[i].index >= Len(text)

NoRuleAt(st, p) ==
    \A k \in 1..Len(TokensOf(cls)[st]) : ~ReMatch(TokensOf(cls)[st][k].re, p).ok

(* C11: unrecognised-character recovery.  Whenever no rule of the state on *)
(* top of the stack matches at the cursor, which is not at the end of the  *)
(* input, the step yields exactly one Error token holding the character at *)
(* the cursor, advances the cursor by one and leaves the stack as it is,   *)
(* whatever the character, a newline in line-statements included.          *)
C11_ErrorRecovery ==
    (Stepped /\ NoRuleAt(last.state, last.pos)) =>
        /\ NewToks = <<Token(last.pos, "Error", <<At(last.pos)>>)>>
        /\ pos = last.pos + 1
        /\ stack = last.stack

\* token t is a closing delimiter %} or }}, with or without a trim marker
IsClose(t) ==
    /\ t.ttype = Delimiter
    /\ Len(t.value) >= 2
    /\ SubSeq(t.value, Len(t.value) - 1, Len(t.value))
          \in {<<"%", "}">>, <<"}", "}">>}

\* the character at offset p directly follows {{ or {%, where it is the
\* trim marker of the opening delimiter
OpenMarkerAt(p) == At(p - 2) = "{" /\ At(p - 1) \in {"{", "%"}

(* C12: the trim marker belongs to the closing delimiter.  Whenever a step *)
(* from tag-expression, output-expression or line-expression yields a      *)
(* closing delimiter and the character just before its %} or }} is a trim  *)
(* marker of the class (and not the marker of the opening delimiter), the  *)
(* delimiter token starts at that marker: the marker is not part of the    *)
(* token before.                                                           *)
C12_TrimInDelimiter ==
    (last.state \in ExprStates /\ Stepped) =>
        \A i \in 1..Len(NewToks) :
            LET t == NewToks[i]
                q == t.index + Len(t.value) - 2
            IN  (IsClose(t) /\ At(q - 1) \in Trim(cls) /\ ~OpenMarkerAt(q - 1))
                => t.index = q - 1

\* the placeholder token types Token.Liquid.*
Placeholders ==
    {"Liquid.Text", "Liquid.Delimiter", "Liquid.Tag.Name", "Liquid.ControlFlow"}

\* the class attribute that is to replace placeholder type t
AttributeFor(t) ==
    CASE t = "Liquid.Text"        -> text_token_type(cls)
      [] t = "Liquid.Delimiter"   -> delimiter_token_type(cls)
      [] t = "Liquid.Tag.Name"    -> tag_name_token_type(cls)
      [] t = "Liquid.ControlFlow" -> control_flow_token_type(cls)

(* C13: kind relabelling.  In every lexer configuration no yielded token   *)
(* has a placeholder type: a token the driving loop typed with a           *)
(* placeholder is yielded with the matching class attribute, and every     *)
(* other token is yielded as it is; offsets and texts never change.        *)
C13_Relabelled ==
    /\ Len(Yielded) = Len(toks)
    /\ \A i \in 1..Len(toks) :
          /\ Yielded[i].index = toks[i].index
          /\ Yielded[i].value = toks[i].value
          /\ Yielded[i].ttype \notin Placeholders
          /\ Yielded[i].ttype =
                (IF toks[i].ttype \in Placeholders
                 THEN AttributeFor(toks[i].ttype) ELSE toks[i].ttype)

\* the text at offset p is markup for root: one of its tag or output rules
\* matches there
MarkupAt(p) == \E k \in 2..8 : ReMatch(TokensOf(cls)["root"][k].re, p).ok

\* the last step consumed a literal-passthrough span: template text or a
\* stray brace in root, or the body of a raw block
Passthrough ==
    \/ last.state = "root" /\ ~MarkupAt(last.pos)
    \/ last.state = "raw-tag" /\ ~ReMatch(TokensOf(cls)["raw-tag"][2].re, last.pos).ok

(* C14: text kind for embedding.  A step that consumes template text or a  *)
(* stray brace in root, or the body of a raw block, yields tokens of the   *)
(* class's text_token_type only, and a step in which a rule matches any    *)
(* other span yields no token of that type.                                *)
C14_TextKind ==
    (Stepped /\ ~NoRuleAt(last.state, last.pos)) =>
        \A i \in 1..Len(NewToks) :
            (NewToks[i].ttype = text_token_type(cls)) <=> Passthrough

\* what is left to do: twice the characters not yet consumed, plus the
\* frames that a default transition can still pop
Remaining(p, stk) == 2 * (Len(text) - p) + Len(stk)

\* a step of the loop advances the cursor, or leaves it where it is and pops
\* one frame by the default transition of path; either way less remains
StepProgress ==
    /\ pos >= last.pos
    /\ Stepped =>
          /\ \/ pos > last.pos
             \/ /\ pos = last.pos
                /\ stack = SubSeq(last.stack, 1, Len(last.stack) - 1)
                /\ last.state = "path"
                /\ last.branch = "default"
          /\ Remaining(pos, stack) < Remaining(last.pos, last.stack)
    /\ Remaining(pos, stack) >= 1

\* while the loop runs one of its branches can be taken: the rule that
\* matches first has an action the loop handles, and when no rule matches
\* the cursor is at a newline, at another character or at the end
CanStep ==
    pc = "run" =>
        IF FirstMatch # 0
        THEN StateTokens[FirstMatch].action.type \in
                 {"token", "bygroups", "endcomment_callback", "None"}
        ELSE \/ pos < Len(text) /\ text[pos + 1] = "\n"
             \/ pos < Len(text) /\ text[pos + 1] # "\n"
             \/ pos >= Len(text)

(* C15: progress and termination.  Every step of the loop either advances  *)
(* the cursor by at least one character or leaves it where it is and pops  *)
(* exactly one frame, which only the default transition of path does; the  *)
(* cursor never decreases.  What remains (twice the characters after the   *)
(* cursor plus the depth of the stack) is positive and strictly smaller    *)
(* after every step, and a running loop can always take a step, so the     *)
(* loop ends after finitely many steps; when it has ended the cursor is at *)
(* the end of the input.                                                   *)
C15_Progress ==
    /\ StepProgress
    /\ CanStep
    /\ pc = "done" => pos = Len(text)

\* the default transition of path has just popped the inner of two path
\* frames without moving the cursor
C15_Witness ==
    /\ last.branch = "default"
    /\ last.state = "path"
    /\ pos = last.pos
    /\ Len(last.stack) >= 4
    /\ last.stack[Len(last.stack) - 1] = "path"
    /\ stack = SubSeq(last.stack, 1, Len(last.stack) - 1)

(* C16: the bottom of the stack.  In every reachable state, whatever the  *)
(* input (unbalanced brackets, stray endcomment and endraw tags, stray     *)
(* closing delimiters), the stack is not empty and its bottom frame is     *)
(* root; endcomment_callback, whose ctx.stack.pop() is unguarded, is never *)
(* run with root on top of the stack.                                      *)
C16_StackBottom ==
    /\ Len(stack) >= 1
    /\ stack[1] = "root"
    /\ last.branch = "endcomment" =>
          /\ Len(last.stack) >= 2
          /\ last.state # "root"

\* endcomment_callback has just popped the only frame above root
C16_Witness ==
    /\ last.branch = "endcomment"
    /\ Len(last.stack) = 2
    /\ stack = <<"root">>

\* the frames of s are path frames, with at most one string state on top
PathsThenString(s) ==
    \A i \in 1..Len(s) :
        \/ s[i] = "path"
        \/ i = Len(s) /\ s[i] \in {"single-string", "double-string"}

\* the frames above root are those of at most one construct
OneConstruct(r) ==
    \/ r = <<>>
    \/ r = <<"inline-comment">>
    \/ r = <<"raw-tag">>
    \/ \A i \in 1..Len(r) : r[i] = "block-comment"
    \/ /\ r[1] \in {"tag-expression", "output-expression", "line-statements"}
       /\ IF r[1] = "line-statements" /\ Len(r) >= 2 /\ r[2] = "line-expression"
          THEN PathsThenString(SubSeq(r, 3, Len(r)))
          ELSE PathsThenString(Tail(r))

StackShape(stk) == stk[1] = "root" /\ OneConstruct(Tail(stk))

\* the last step yielded a closing delimiter from the state of a tag, of an
\* output statement or of a line of a liquid block
ClosedFromExpression ==
    /\ Stepped
    /\ last.state \in ExprStates
    /\ \E i \in 1..Len(NewToks) : IsClose(NewToks[i])

(* C17: the shape of the stack.  In every reachable state the stack is     *)
(* root followed by at most one construct: inline-comment, or raw-tag, or  *)
(* one or more block-comment frames, or tag-expression, output-expression  *)
(* or line-statements (with line-expression above it or not) followed by   *)
(* zero or more path frames and at most one string state on top.  When a   *)
(* closing %} or }} is yielded as a delimiter from tag-expression,         *)
(* output-expression or line-expression, the path frames pushed inside     *)
(* the construct are gone and the stack after the step is root alone.      *)
C17_StackShape ==
    /\ StackShape(stack)
    /\ StackShape(last.stack)
    /\ ClosedFromExpression => stack = <<"root">>

\* a liquid block has been closed from line-expression after a bracket
\* pushed a path frame inside it
C17_Witness ==
    /\ ClosedFromExpression
    /\ last.state = "line-expression"
    /\ last.stack = <<"root", "line-statements", "line-expression">>
    /\ \E i \in 1..Len(toks) : toks[i].value = <<"[">>
    /\ stack = <<"root">>

StringStates == {"single-string", "double-string"}

(* C18: string scanning is total.  While single-string or double-string is *)
(* on top of the stack every character is consumed by one of the three     *)
(* rules of the state (a backslash with the character after it, whatever   *)
(* it is; the closing quote; a run of other characters): a step taken in   *)
(* a string state is a step of a rule, it yields no Error token and it is  *)
(* not the fallback of the loop.                                           *)
C18_StringsTotal ==
    (Stepped /\ last.state \in StringStates) =>
        /\ last.branch = "token"
        /\ \A i \in 1..Len(NewToks) : NewToks[i].ttype # "Error"

\* digits, a dot and digits stand at offset p
FloatAt(p) ==
    ReMatch(Re(<<In(Digit, "+"), Lit(<<".">>), In(Digit, "+")>>), p)

\* the digits that stand at offset p
DigitsAt(p) == ReMatch(Re(<<In(Digit, "+")>>), p)

\* the last step yielded the literal digits.digits at the cursor as one float
OneFloat ==
    /\ NewToks = <<Token(last.pos, "Number.Float", Group0(FloatAt(last.pos)))>>
    /\ pos = FloatAt(last.pos).end

(* C19: float before integer in every expression context.  In              *)
(* tag-expression, output-expression, line-expression and inside the       *)
(* brackets of a path, a step that starts at a literal of the form digits, *)
(* dot, digits yields it as one float token, never as an integer, a dot    *)
(* and an integer.                                                         *)
C19_FloatEverywhere ==
    (Stepped /\ last.state \in ExprStates \cup {"path"} /\ FloatAt(last.pos).ok)
        => OneFloat

(* C19, amended: in tag-expression, output-expression and line-expression  *)
(* a step that starts at digits, dot, digits yields one float token; in    *)
(* path, which has no float rule, the step yields the leading digits as an *)
(* integer and leaves the cursor at the dot.                               *)
C19_FloatInExpression ==
    /\ (Stepped /\ last.state \in ExprStates /\ FloatAt(last.pos).ok) => OneFloat
    /\ (Stepped /\ last.state = "path" /\ FloatAt(last.pos).ok) =>
          /\ NewToks = <<Token(last.pos, "Number.Integer",
                               Group0(DigitsAt(last.pos)))>>
          /\ pos = DigitsAt(last.pos).end
          /\ At(pos) = "."

\* a float has been yielded from an expression state, and the same literal
\* inside the brackets of a path has just been started as an integer
C19_Witness ==
    /\ \E i \in 1..Len(toks) : toks[i].ttype = "Number.Float"
    /\ Stepped
    /\ last.state = "path"
    /\ FloatAt(last.pos).ok
    /\ NewToks[1].ttype = "Number.Integer"

\* the text of the opening tag of a block comment
CommentOpening ==
    <<"{", "%", " ", "c", "o", "m", "m", "e", "n", "t", " ", "%", "}">>

\* the input starts with the opening tag of a block comment, whose five
\* tokens are the first five of the stream
OpensWithComment ==
    /\ Len(text) >= Len(CommentOpening)
    /\ SubSeq(text, 1, Len(CommentOpening)) = CommentOpening
    /\ Len(Yielded) >= 5
    /\ Texts(SubSeq(Yielded, 1, 5)) = CommentOpening

\* the last step was endcomment_callback closing the outermost comment
OutermostEndComment ==
    /\ last.branch = "endcomment"
    /\ last.stack = <<"root", "block-comment">>

(* C20: the outermost endcomment tag is tokenized like a normal tag.  For  *)
(* each of the four classes, the five tokens yielded for the outermost     *)
(* {% endcomment %} have, position by position, the kinds of the five      *)
(* tokens yielded for the opening {% comment %} tag in root.               *)
C20_EndCommentKinds ==
    (OpensWithComment /\ OutermostEndComment) =>
        /\ Len(NewToks) = 5
        /\ \A k \in 1..5 : NewToks[k].ttype = Yielded[k].ttype

\* the last step, taken in inline-comment, yielded the closing delimiter t
\* and a trim marker of the class stands directly before its %}
MarkedInlineClose(t) ==
    /\ Stepped
    /\ last.state = "inline-comment"
    /\ IsClose(t)
    /\ At(t.index + Len(t.value) - 3) \in Trim(cls)

(* C21: the close of an inline comment in Liquid2Lexer.  For an inline     *)
(* comment {% # ... m%} where m is one of the trim markers -, ~ and +, the *)
(* closing delimiter token is the three characters m%} (the marker is not  *)
(* yielded as comment text), the inline-comment frame is popped and the    *)
(* stack is root alone.                                                    *)
C21_InlineClose ==
    cls = "Liquid2Lexer" =>
        \A i \in 1..Len(NewToks) :
            MarkedInlineClose(NewToks[i]) =>
                /\ Len(NewToks[i].value) = 3
                /\ NewToks[i].value[1] \in Trim(cls)
                /\ stack = <<"root">>

\* the last step, taken with line-expression on top of the stack, consumed
\* a newline
NewlineInLine ==
    /\ Stepped
    /\ last.state = "line-expression"
    /\ \E i \in 1..Len(Consumed) : Consumed[i] = "\n"

(* C22: a line expression ends at the newline.  While line-expression is   *)
(* on top of the stack, a newline is consumed only by the line-terminator  *)
(* rule, the first rule of the state, which pops line-expression back to   *)
(* line-statements; no other rule applied in line-expression consumes a    *)
(* newline and leaves line-expression on the stack.                        *)
C22_LineEnds ==
    NewlineInLine =>
        /\ last.rule = 1
        /\ stack = SubSeq(last.stack, 1, Len(last.stack) - 1)
        /\ stack[Len(stack)] = "line-statements"

\* {% with its trim marker and whitespace, then the maximal run
\* [a-z][a-z_0-9]*, at offset p; group 3 is the name
TagNameAt(p) ==
    ReMatch(ReGroups(TagOpen(cls) \o <<In(Lower, "1"), In(TagChar, "*")>>,
                     << <<1, 2>>, <<3, 3>>, <<4, 5>> >>), p)

\* the tokens of the last step as the rules typed them
RuleToks == SubSeq(toks, last.ntoks + 1, Len(toks))

\* the tokens of the last step that are tag names or control-flow keywords
NameToks ==
    {i \in 1..Len(RuleToks) :
        (RuleToks[i].ttype = "Liquid.Tag.Name"
            \/ RuleToks[i].ttype = "Liquid.ControlFlow")}

\* the last step was taken in root at a tag opening followed by a name
TagStep == Stepped /\ last.state = "root" /\ TagNameAt(last.pos).ok

IsControlFlow(name) ==
    \E k \in 1..Len(ControlFlowWords) : ControlFlowWords[k] = name

SpecialNames ==
    { <<"l", "i", "q", "u", "i", "d">>, <<"c", "o", "m", "m", "e", "n", "t">>,
      <<"r", "a", "w">> }

(* C23: tag names are classified whole.  In root, at a tag opening {% with *)
(* an optional trim marker and optional whitespace followed by a name, a   *)
(* maximal run of a lower-case letter and then lower-case letters, digits  *)
(* and underscores, the step yields exactly one name token                 *)
(* and it covers the whole name; the token is a control-flow keyword if    *)
(* and only if the name is one of the control-flow keywords;               *)
(* line-statements is entered if and only if the name is liquid; and a     *)
(* name that is not special, such as one that has a special name as a      *)
(* proper prefix, is one generic tag name and enters tag-expression.       *)
C23_WholeNames ==
    TagStep =>
        LET name == Group(TagNameAt(last.pos), 3)
        IN  /\ Cardinality(NameToks) = 1
            /\ \A i \in NameToks :
                  /\ RuleToks[i].value = name
                  /\ RuleToks[i].ttype = "Liquid.ControlFlow"
                        <=> IsControlFlow(name)
            /\ stack = <<"root", "line-statements">>
                  <=> name = <<"l", "i", "q", "u", "i", "d">>
            /\ (~IsControlFlow(name) /\ name \notin SpecialNames) =>
                  /\ \A i \in NameToks : RuleToks[i].ttype = "Liquid.Tag.Name"
                  /\ stack = <<"root", "tag-expression">>

\* the last token of the last step is the delimiter d, as Punctuation
ClosedBy(d) ==
    /\ NewToks # <<>>
    /\ NewToks[Len(NewToks)].ttype = "Punctuation"
    /\ NewToks[Len(NewToks)].value = d

\* the last step of the draft yielded the closing delimiter of a markup
\* construct that started in root: the %} of a tag, of the endcomment tag
\* of a comment block or of the endraw tag of a raw block, or the }} of an
\* output statement
ConstructClosed ==
    /\ cls = Draft
    /\ Stepped
    /\ \/ /\ last.state \in {"tag-markup", "variable-tag-markup", "condition",
                             "_tmp_1"}
          /\ last.stack = <<"root", "tag-or-block", last.state>>
          /\ ClosedBy(<<"%", "}">>)
       \/ /\ last.state = "tag-or-block"
          /\ last.stack = <<"root", "tag-or-block">>
          /\ last.rule \in {3, 4, 7, 8}
       \/ /\ last.state = "comment"
          /\ last.stack = <<"root", "tag-or-block", "comment">>
          /\ last.rule = 1
       \/ /\ last.state = "raw"
          /\ last.stack = <<"root", "tag-or-block", "raw">>
          /\ last.rule = 2
       \/ /\ last.state \in {"output", "filters", "filter-markup"}
          /\ last.stack[2] = "output"
          /\ ClosedBy(<<"}", "}">>)

(* C24: the earlier draft returns to root after each construct.  After the *)
(* closing delimiter of a complete markup construct that started in root   *)
(* (a tag, a comment block, a raw block, an output statement with or       *)
(* without a filter) the stack is root alone, so that the text after the   *)
(* construct is tokenized by the rules of root.                            *)
C24_DraftReturnsToRoot == ConstructClosed => stack = <<"root">>

====
